---------------------------- MODULE Spec2Model ----------------------------
(***************************************************************************)
(* Geometry engine of the bridge haunch report (src/create_pdf.py).        *)
(*                                                                         *)
(* The report functions are pure functions of the `inputs` record (GUI     *)
(* data, src/input_data.py) and the `results` record (arrays handed over   *)
(* by the structural analysis).  Each component is modelled as a small     *)
(* state machine: Init draws the inputs, the actions apply the functions.  *)
(*                                                                         *)
(* Units.  All quantities are integers in a fixed-point unit:              *)
(*   mesh elevations  : 1/10000 ft  (0.0005 ft = 5)                        *)
(*   mesh stations, offsets : ft                                           *)
(***************************************************************************)
EXTENDS Integers, Sequences, FiniteSets, TLC

VARIABLES mode,      \* which component this behaviour exercises
          pc,        \* position in the component's call sequence
          inputs,    \* the BridgeInputs fields the component reads
          results,   \* the analysis results the component reads
          c,         \* fields of the BridgeDesign3DVisualizer object
          faces,     \* Poly3DCollections added to the axes, in order
          ret,       \* value returned by the last function call
          outcome    \* "none", "returned" or the exception raised

vars == <<mode, pc, inputs, results, c, faces, ret, outcome>>

\* a variable the component does not use, or not yet assigned
NoObject == [kind |-> "none"]

(***************************************************************************)
(* Generic helpers: Python list / numpy semantics.                         *)
(***************************************************************************)
Min2(a, b) == IF a <= b THEN a ELSE b

Max2(a, b) == IF a >= b THEN a ELSE b

RECURSIVE SumTo(_, _)
\* s[:k].sum() : the sum of the first k entries of s
SumTo(sq, k) == IF k <= 0 THEN 0 ELSE sq[k] + SumTo(sq, k - 1)

\* seq[a:b] for 0 <= a, 0 <= b : a Python slice never raises, it clips
Slice(sq, a, b) == SubSeq(sq, a + 1, Min2(b, Len(sq)))

RECURSIVE ConcatRange(_, _, _)
\* F[lo] \o F[lo+1] \o ... \o F[hi] : the appends of a for-loop over range
ConcatRange(F, lo, hi) ==
    IF lo > hi THEN <<>> ELSE F[lo] \o ConcatRange(F, lo + 1, hi)

(***************************************************************************)
(* HaunchVolumeMeshBuilder : class BridgeDesign3DVisualizer                *)
(***************************************************************************)
MaxSpans == 2
MaxBeams == 2
MinS == 3
MaxS == 6

\* first-flange offsets of the layouts drawn for results.beam_layout_obj.offsets
OffsetStarts == {-5, -2, -1}
FlangeWidth == 2
BeamSpacing == 4
ElevBases == {-50000, 1000000}
\* which array of the results deviates in length from sum(s), and by how much
ArrayNames == {"sta_G", "TG_Elev", "Min_Haunch_Elev", "BS_Elev", "TS_Elev"}
Mismatches == {[arr |-> "none", by |-> 0]}
              \cup [arr : ArrayNames, by : {-1, 1}]

\* offsets[0] : left and right flange offset of each girder, by girder index
OffsetsRow(start, nb) ==
    [col \in 1..(2 * nb) |->
        start + BeamSpacing * ((col - 1) \div 2)
              + (IF (col - 1) % 2 = 1 THEN FlangeWidth ELSE 0)]

\* number of rows of array `name` of the results
RowsOf(name) ==
    SumTo(results.s, results.ns)
      + (IF results.mismatch.arr = name THEN results.mismatch.by ELSE 0)

\* cell values of the result arrays, by original row index (0-based) and
\* column (0-based); the analysis is external, these are its sample data
sta_x_10_ft(id) == 10 * id

sta_G(id, col) == 10 * id + col

TG_Elev(id, col) == results.elevBase + 30 * id - 7 * col

Min_Haunch_Elev(id, col) == TG_Elev(id, col) + 400 + 11 * ((id * id + col) % 5)

BS_Elev(id, col) == Min_Haunch_Elev(id, col) + 833

\* results.vc_obj.elev(station) - over_deck_t / 12 at row id of sta_x_10_ft
PGL_elev_bot_deck(id) == results.elevBase + 2000 + 30 * id

CellValue(src, id, col) ==
    CASE src = "sta_G" -> sta_G(id, col)
      [] src = "TG_Elev" -> TG_Elev(id, col)
      [] src = "Min_Haunch_Elev" -> Min_Haunch_Elev(id, col)
      [] src = "BS_Elev" -> BS_Elev(id, col)
      [] src = "offsets" -> c.offsets[col + 1]

\* ---- __init__ : remove the CL bearing rows ------------------------------
start_index_remove(i) == IF i > 0 THEN SumTo(results.s, i) ELSE 0

end_index_remove(i) == SumTo(results.s, i + 1) - 1

to_remove ==
    UNION {{start_index_remove(i), end_index_remove(i)} : i \in 0..(results.ns - 1)}

\* np.delete(arr, to_remove, axis=0) on an array of n rows: the original
\* row indices that remain, in order
np_delete(n) ==
    SelectSeq([r \in 1..n |-> r - 1], LAMBDA id : id \notin to_remove)

\* numpy raises IndexError when an index to delete is out of bounds
DeleteOutOfBounds(n) == \E id \in to_remove : id >= n

InitMesh ==
    /\ mode = "mesh"
    /\ pc = "start"
    /\ \E nb \in 1..MaxBeams : inputs = [n_beams |-> nb]
    /\ \E n \in 1..MaxSpans, st \in OffsetStarts, eb \in ElevBases, mm \in Mismatches :
         \E sv \in [1..n -> MinS..MaxS] :
            results = [ns |-> n, s |-> sv, offsetStart |-> st,
                       elevBase |-> eb, mismatch |-> mm]
    /\ c = NoObject
    /\ faces = <<>>
    /\ ret = NoObject
    /\ outcome = "none"

Construct ==
    /\ mode = "mesh"
    /\ pc = "start"
    /\ IF \E a \in ArrayNames : DeleteOutOfBounds(RowsOf(a))
         THEN /\ outcome' = "IndexError"
              /\ pc' = "failed"
              /\ c' = c
         ELSE /\ c' = [sta_G |-> np_delete(RowsOf("sta_G")),
                       TG_Elev |-> np_delete(RowsOf("TG_Elev")),
                       Min_Haunch_Elev |-> np_delete(RowsOf("Min_Haunch_Elev")),
                       BS_Elev |-> np_delete(RowsOf("BS_Elev")),
                       TS_Elev |-> np_delete(RowsOf("TS_Elev")),
                       offsets |-> OffsetsRow(results.offsetStart, inputs.n_beams),
                       n_points |-> Len(np_delete(RowsOf("sta_G"))),
                       n_girders |-> 2 * inputs.n_beams]
              /\ pc' = "constructed"
              /\ outcome' = "returned"
    /\ UNCHANGED <<mode, inputs, results, faces, ret>>

\* ---- create_haunch_surfaces ---------------------------------------------
\* an array of a surface: the rows it holds, the series they come from and
\* the constant added to every cell
SurfArray(rows, src, add) == [rows |-> rows, src |-> src, add |-> add]

HaunchEps == 5

\* Min_Haunch_Elev + 0.0005 and Min_Haunch_Elev - 0.0005
MinBandOffset == HaunchEps

VarBandOffsetMutant == HaunchEps

VarBandOffset == 0 - HaunchEps

YRows == [r \in 1..c.n_points |-> 0]

create_haunch_surfaces ==
    [Minimum_Haunch |->
        [X |-> SurfArray(c.sta_G, "sta_G", 0),
         Y |-> SurfArray(YRows, "offsets", 0),
         Z_top |-> SurfArray(c.BS_Elev, "BS_Elev", 0),
         Z_bot |-> SurfArray(c.Min_Haunch_Elev, "Min_Haunch_Elev", MinBandOffset)],
     Variable_Haunch |->
        [X |-> SurfArray(c.sta_G, "sta_G", 0),
         Y |-> SurfArray(YRows, "offsets", 0),
         Z_top |-> SurfArray(c.Min_Haunch_Elev, "Min_Haunch_Elev", VarBandOffset),
         Z_bot |-> SurfArray(c.TG_Elev, "TG_Elev", 0)]]

\* ---- plot_haunch_volume --------------------------------------------------
start_indexMutant(k) == IF k > 0 THEN SumTo(results.s, k) - k ELSE 0

start_index(k) == IF k > 0 THEN SumTo(results.s, k) - 2 * k ELSE 0

end_index(k) == SumTo(results.s, k + 1) - 2 * (k + 1)

start_index_pglMutant(k) == IF k > 0 THEN SumTo(results.s, k) ELSE 0

start_index_pgl(k) == IF k > 0 THEN SumTo(results.s, k) + 1 ELSE 1

end_index_pglMutant(k) == SumTo(results.s, k + 1)

end_index_pgl(k) == SumTo(results.s, k + 1) - 1

\* arr[start_index:end_index, col] as the sequence of its cell values
ColSlice(arr, k, col) ==
    LET rows == Slice(arr.rows, start_index(k), end_index(k))
    IN  [r \in 1..Len(rows) |-> CellValue(arr.src, rows[r], col) + arr.add]

\* sta_x_10_ft[start_index_pgl:end_index_pgl] as original row indices
PGLRows(k) ==
    Slice([r \in 1..RowsOf("sta_x_10_ft") |-> r - 1], start_index_pgl(k), end_index_pgl(k))

\* range(int(s[k] - 3)) : one pass per consecutive pair of retained samples
IntervalCountMutant(k) == results.s[k + 1] - 4

IntervalCount(k) == results.s[k + 1] - 3

Face(label, kind, k, j, i, v) ==
    [label |-> label, kind |-> kind, k |-> k, j |-> j, i |-> i, v |-> v]

\* the condition of line 712 without the label test
Straddles(ylt, yrt) == (ylt > 0 /\ yrt < 0) \/ (ylt < 0 /\ yrt > 0)

SplitLabelMutant == "Variable Haunch"

SplitLabel == "Minimum Haunch"

GirderFaces(sd, label, k, j) ==
    LET m == 2 * j
        n == 2 * j + 1
        xl == ColSlice(sd.X, k, m)
        xr == ColSlice(sd.X, k, n)
        yl == ColSlice(sd.Y, k, m)
        yr == ColSlice(sd.Y, k, n)
        ztl == ColSlice(sd.Z_top, k, m)
        ztr == ColSlice(sd.Z_top, k, n)
        zbl == ColSlice(sd.Z_bot, k, m)
        zbr == ColSlice(sd.Z_bot, k, n)
        pgl == PGLRows(k)
        PGL(i) == sta_x_10_ft(pgl[i + 1])
        PGLz(i) == PGL_elev_bot_deck(pgl[i + 1])
        \* Python 0-based index i is position i + 1
        Interval(i) ==
            LET p == i + 1
                q == i + 2
            IN  <<Face(label, "bottom", k, j, i,
                       << <<xl[p], yl[p], zbl[p]>>, <<xr[p], yr[p], zbr[p]>>,
                          <<xr[q], yr[q], zbr[q]>>, <<xl[q], yl[q], zbl[q]>> >>)>>
                \o (IF Straddles(yl[p], yr[p]) /\ label = SplitLabel
                      THEN <<Face(label, "top", k, j, i,
                                  << <<xl[p], yl[p], ztl[p]>>, <<PGL(i), 0, PGLz(i)>>,
                                     <<PGL(i + 1), 0, PGLz(i + 1)>>, <<xl[q], yl[q], ztl[q]>> >>),
                             Face(label, "top", k, j, i,
                                  << <<PGL(i), 0, PGLz(i)>>, <<xr[p], yr[p], ztr[p]>>,
                                     <<xr[q], yr[q], ztr[q]>>, <<PGL(i + 1), 0, PGLz(i + 1)>> >>)>>
                      ELSE <<Face(label, "top", k, j, i,
                                  << <<xl[p], yl[p], ztl[p]>>, <<xr[p], yr[p], ztr[p]>>,
                                     <<xr[q], yr[q], ztr[q]>>, <<xl[q], yl[q], ztl[q]>> >>)>>)
                \o <<Face(label, "left", k, j, i,
                          << <<xl[p], yl[p], zbl[p]>>, <<xl[p], yl[p], ztl[p]>>,
                             <<xl[q], yl[q], ztl[q]>>, <<xl[q], yl[q], zbl[q]>> >>),
                     Face(label, "right", k, j, i,
                          << <<xr[p], yr[p], zbr[p]>>, <<xr[p], yr[p], ztr[p]>>,
                             <<xr[q], yr[q], ztr[q]>>, <<xr[q], yr[q], zbr[q]>> >>)>>
        last == Len(xl)
    IN  ConcatRange([i \in 0..(IntervalCount(k) - 1) |-> Interval(i)],
                    0, IntervalCount(k) - 1)
        \o <<Face(label, "front", k, j, 0,
                  << <<xl[1], yl[1], zbl[1]>>, <<xl[1], yl[1], ztl[1]>>,
                     <<xr[1], yr[1], ztr[1]>>, <<xr[1], yr[1], zbr[1]>> >>),
             Face(label, "back", k, j, last - 1,
                  << <<xl[last], yl[last], zbl[last]>>, <<xl[last], yl[last], ztl[last]>>,
                     <<xr[last], yr[last], ztr[last]>>, <<xr[last], yr[last], zbr[last]>> >>)>>

plot_haunch_volume(sd, label) ==
    LET Span(k) == ConcatRange([j \in 0..(inputs.n_beams - 1) |->
                                   GirderFaces(sd, label, k, j)],
                               0, inputs.n_beams - 1)
    IN  ConcatRange([k \in 0..(results.ns - 1) |-> Span(k)], 0, results.ns - 1)

\* every index of the face loop exists in every slice it reads
SlicesInRange(sd) ==
    \A k \in 0..(results.ns - 1) :
       \A arr \in {sd.X, sd.Y, sd.Z_top, sd.Z_bot} :
          Len(Slice(arr.rows, start_index(k), end_index(k))) >= results.s[k + 1] - 2

\* ---- plot_3d_bridge ------------------------------------------------------
Plot3DBridge ==
    /\ mode = "mesh"
    /\ pc = "constructed"
    /\ LET surfaces == create_haunch_surfaces
       IN  IF SlicesInRange(surfaces.Variable_Haunch) /\ SlicesInRange(surfaces.Minimum_Haunch)
             THEN /\ faces' = plot_haunch_volume(surfaces.Variable_Haunch, "Variable Haunch")
                              \o plot_haunch_volume(surfaces.Minimum_Haunch, "Minimum Haunch")
                  /\ outcome' = "returned"
                  /\ pc' = "plotted"
             ELSE /\ faces' = faces
                  /\ outcome' = "IndexError"
                  /\ pc' = "failed"
    /\ UNCHANGED <<mode, inputs, results, c, ret>>

NextMesh == Construct \/ Plot3DBridge

SpecMesh == InitMesh /\ [][NextMesh]_vars


(***************************************************************************)
(* Properties of the mesh builder.                                         *)
(***************************************************************************)
Labels == {"Variable Haunch", "Minimum Haunch"}

Plotted == mode = "mesh" /\ pc = "plotted"

SpanIdx == 0..(results.ns - 1)

GirderIdx == 0..(inputs.n_beams - 1)

\* number of faces of one kind emitted for interval i of girder j of span k
CountAt(label, kind, k, j, i) ==
    Cardinality({n \in 1..Len(faces) :
        /\ faces[n].label = label /\ faces[n].kind = kind
        /\ faces[n].k = k /\ faces[n].j = j /\ faces[n].i = i})

\* number of faces of the kinds in `kinds` emitted for girder j of span k
CountGirder(label, kinds, k, j) ==
    Cardinality({n \in 1..Len(faces) :
        /\ faces[n].label = label /\ faces[n].kind \in kinds
        /\ faces[n].k = k /\ faces[n].j = j})

\* the flange offsets of girder j (left, right) have opposite sign
OppositeSign(j) == c.offsets[2 * j + 1] * c.offsets[2 * j + 2] < 0

\* the top faces of interval i that have two vertices on offset 0
OnCrown(label, k, j, i) ==
    {n \in 1..Len(faces) :
        /\ faces[n].label = label /\ faces[n].kind = "top"
        /\ faces[n].k = k /\ faces[n].j = j /\ faces[n].i = i
        /\ Cardinality({p \in 1..4 : faces[n].v[p][2] = 0}) = 2}

TopSplitIn(splitLabel) ==
    Plotted =>
      \A label \in Labels, k \in SpanIdx, j \in GirderIdx :
         \A i \in 0..(results.s[k + 1] - 4) :
            IF label = splitLabel /\ OppositeSign(j)
              THEN /\ CountAt(label, "top", k, j, i) = 2
                   /\ Cardinality(OnCrown(label, k, j, i)) = 2
              ELSE CountAt(label, "top", k, j, i) = 1

\* C1 as stated: the top face of an interval is split into two quads meeting
\* on offset 0 exactly when the face set is VariableHaunch and the two flange
\* offsets have opposite sign; otherwise one planar top quad is emitted.
C1_AsStated == TopSplitIn("Variable Haunch")

\* C1 amended: the top face of an interval is split into two quads meeting on
\* offset 0 exactly when the face set is MinimumHaunch (the band under the
\* deck) and the two flange offsets have opposite sign; for VariableHaunch and
\* for offsets of the same sign (or zero) one planar top quad is emitted.
C1_TopSplitMinimumHaunch == TopSplitIn("Minimum Haunch")

C1_Witness ==
    /\ Plotted
    /\ \E k \in SpanIdx, j \in GirderIdx :
          /\ OppositeSign(j)
          /\ CountAt("Minimum Haunch", "top", k, j, 0) = 2
          /\ CountAt("Variable Haunch", "top", k, j, 0) = 1
    /\ \E j \in GirderIdx : ~OppositeSign(j)

\* faces per girder, span and region: one bottom, top, left and right quad
\* per pair of consecutive retained samples, two caps, and one more top quad
\* per interval of a girder for which `Crossing(label, j)` holds
FaceCounts(Crossing(_, _)) ==
    Plotted =>
      \A label \in Labels, k \in SpanIdx, j \in GirderIdx :
         LET pairs == (results.s[k + 1] - 2) - 1
             extra == IF Crossing(label, j) THEN pairs ELSE 0
         IN  /\ CountGirder(label, {"bottom"}, k, j) = pairs
             /\ CountGirder(label, {"left"}, k, j) = pairs
             /\ CountGirder(label, {"right"}, k, j) = pairs
             /\ CountGirder(label, {"top"}, k, j) = pairs + extra
             /\ CountGirder(label, {"front"}, k, j) = 1
             /\ CountGirder(label, {"back"}, k, j) = 1
             /\ CountGirder(label, {"bottom", "top", "left", "right", "front", "back"}, k, j)
                  = 4 * pairs + 2 + extra
             /\ \A i \in 0..(pairs - 1) :
                   /\ CountAt(label, "bottom", k, j, i) = 1
                   /\ CountAt(label, "left", k, j, i) = 1
                   /\ CountAt(label, "right", k, j, i) = 1

CrossingAnyRegion(label, j) == OppositeSign(j)

CrossingMinimumRegion(label, j) == label = "Minimum Haunch" /\ OppositeSign(j)

\* C4 as stated: for every span, girder and haunch region the builder emits
\* one bottom, top, left and right quad per pair of consecutive retained
\* samples plus two caps, and each crossing interval adds one top quad.
C4_AsStated == FaceCounts(CrossingAnyRegion)

\* C4 amended: for every span, girder and haunch region the builder emits one
\* bottom, top, left and right quad per pair of consecutive retained samples
\* plus two caps (14 faces for 3 intervals without crossing); each crossing
\* interval adds one top quad in the MinimumHaunch region and none in the
\* VariableHaunch region.
C4_FaceCounts == FaceCounts(CrossingMinimumRegion)

C4_Witness ==
    /\ Plotted
    /\ \E k \in SpanIdx, j \in GirderIdx :
          /\ results.s[k + 1] = 6
          /\ ~OppositeSign(j)
          /\ CountGirder("Variable Haunch",
                         {"bottom", "top", "left", "right", "front", "back"}, k, j) = 14
    /\ \E k \in SpanIdx, j \in GirderIdx :
          /\ OppositeSign(j)
          /\ CountGirder("Minimum Haunch", {"top"}, k, j) = 2 * (results.s[k + 1] - 3)

\* the interior samples of span k, by original row index, in order
InteriorRows(k) == [r \in 1..(results.s[k + 1] - 2) |-> SumTo(results.s, k) + r]

BearingRows == {SumTo(results.s, k) : k \in SpanIdx}
               \cup {SumTo(results.s, k + 1) - 1 : k \in SpanIdx}

\* the trimmed arrays plot_haunch_volume slices
ReadArrays ==
    LET sf == create_haunch_surfaces
    IN  {sf.Variable_Haunch.X, sf.Variable_Haunch.Z_top, sf.Variable_Haunch.Z_bot,
         sf.Minimum_Haunch.X, sf.Minimum_Haunch.Z_top, sf.Minimum_Haunch.Z_bot}

\* C5: for every span k the rows plot_haunch_volume reads from the trimmed
\* arrays are exactly the s[k] - 2 interior samples of span k in their
\* original order, and the trimming removed the two bearing rows of every
\* span and no other row.
C5_TrimmedRowsAreInterior ==
    (mode = "mesh" /\ pc \in {"constructed", "plotted"}) =>
       /\ \A arr \in ReadArrays, k \in SpanIdx :
             Slice(arr.rows, start_index(k), end_index(k)) = InteriorRows(k)
       /\ \A a \in {"sta_G", "TG_Elev", "Min_Haunch_Elev", "BS_Elev", "TS_Elev"} :
             LET kept == {c[a][r] : r \in 1..Len(c[a])}
             IN  /\ kept = (0..(RowsOf(a) - 1)) \ BearingRows
                 /\ \A r \in 1..(Len(c[a]) - 1) : c[a][r] < c[a][r + 1]

C5_Witness ==
    /\ mode = "mesh" /\ pc = "constructed"
    /\ results.ns = 2
    /\ results.s[1] = 4 /\ results.s[2] = 5
    /\ Slice(c.sta_G, start_index(1), end_index(1)) = <<5, 6, 7>>

\* the value of cell (r, col) of a surface array, r a 1-based row
SurfCell(arr, r, col) == CellValue(arr.src, arr.rows[r], col) + arr.add

\* C6: for every sample and flange line the MinimumHaunch band lies between
\* the bearing-seat elevation and minimum-haunch elevation + 0.0005 ft, the
\* VariableHaunch band between minimum-haunch elevation - 0.0005 ft and the
\* top-of-girder elevation, and the two boundaries next to the minimum-haunch
\* elevation are 0.001 ft apart.
C6_BandsSeparated ==
    (mode = "mesh" /\ pc \in {"constructed", "plotted"}) =>
       LET sf == create_haunch_surfaces
       IN  \A r \in 1..Len(c.Min_Haunch_Elev), col \in 0..(2 * inputs.n_beams - 1) :
              LET id == c.Min_Haunch_Elev[r]
              IN  /\ SurfCell(sf.Minimum_Haunch.Z_bot, r, col) = Min_Haunch_Elev(id, col) + 5
                  /\ SurfCell(sf.Variable_Haunch.Z_top, r, col) = Min_Haunch_Elev(id, col) - 5
                  /\ SurfCell(sf.Minimum_Haunch.Z_bot, r, col)
                       - SurfCell(sf.Variable_Haunch.Z_top, r, col) = 10
                  /\ r <= Len(c.BS_Elev) =>
                       SurfCell(sf.Minimum_Haunch.Z_top, r, col) = BS_Elev(c.BS_Elev[r], col)
                  /\ r <= Len(c.TG_Elev) =>
                       SurfCell(sf.Variable_Haunch.Z_bot, r, col) = TG_Elev(c.TG_Elev[r], col)

C6_Witness ==
    /\ Plotted
    /\ results.elevBase < 0
    /\ \E n \in 1..Len(faces) :
          /\ faces[n].label = "Minimum Haunch" /\ faces[n].kind = "bottom"
          /\ faces[n].v[1][3] = Min_Haunch_Elev(1, 2 * faces[n].j) + 5

\* C10: when the arrays handed to the mesh builder do not all have the same
\* number of samples, the builder ends in a ConfigurationError and emits no
\* face.
C10_MismatchIsConfigurationError ==
    (mode = "mesh" /\ results.mismatch.arr # "none" /\ pc \in {"plotted", "failed"}) =>
       (outcome = "ConfigurationError" /\ faces = <<>>)

\* a mismatched input for which the builder returns normally with faces
C10_SilentFaces ==
    /\ Plotted
    /\ results.mismatch.arr = "TG_Elev" /\ results.mismatch.by = 1
    /\ outcome = "returned"
    /\ Len(faces) > 0

(***************************************************************************)
(* CrossSectionProfileGenerator : create_beam_cx, create_rail_cx           *)
(*                                                                         *)
(* Lengths are in 1/4800 inch, so that every sixteenth of an inch of the   *)
(* source and tf_width = feet * 12 are integers.  The trigonometric        *)
(* factors are the source's values rounded to that unit; np.sqrt is the    *)
(* integer square root.                                                    *)
(***************************************************************************)
\* n sixteenths of an inch
In16(n) == n * 300

\* n inches
Inch(n) == n * 4800

\* floor of the square root of n, 0 <= n < 2^31
ISqrt(n) ==
    LET RECURSIVE Search(_, _)
        Search(lo, hi) ==
            IF lo >= hi THEN lo
            ELSE LET mid == (lo + hi + 1) \div 2
                 IN  IF mid * mid <= n THEN Search(mid, hi) ELSE Search(lo, mid - 1)
    IN  Search(0, 46340)

\* cos and sin of theta_bot = arctan(5.5 / (38.375/2 - (5+15/16)/2)) and of
\* theta_top = arctan(1.75 / (48.25/2 - (5+15/16)/2)), in 1/10000
cos_theta_bot == 9470
sin_theta_bot == 3212
cos_theta_top == 9966
sin_theta_top == 824
TrigScale == 10000

R_stemMutant == In16(120)

R_stem == In16(126)

R_flng == In16(32)

\* R * tan(pi/4 - theta/2)
d_top_flng == 8839
d_bot_flng == 6881
d_top_stem == 34802
d_bot_stem == 27096

bf_width == In16(614)

thick_w == In16(95)

champfer == In16(12)

no == 50

Times(d, trig) == (d * trig) \div TrigScale

\* np.linspace(a, b, no)[i], i = 0 .. no-1
linspace(a, b, i) == a + (i * (b - a)) \div (no - 1)

\* the no points appended by one fillet loop: x from linspace(xa, xb), the
\* circle abscissa x_cir = R - sign * (x - xref), y = y0 + up * sqrt(R^2 - x_cir^2)
ArcXMutant(xa, xb) == [n \in 1..(no - 1) |-> linspace(xa, xb, n - 1)]

ArcX(xa, xb) == [n \in 1..no |-> linspace(xa, xb, n - 1)]

ArcY(xa, xb, R, xref, sign, y0, up) ==
    [n \in 1..no |->
        LET x_cir == R - sign * (linspace(xa, xb, n - 1) - xref)
        IN  y0 + up * ISqrt(R * R - x_cir * x_cir)]

\* x of the start point (line 90)
StartX(tf_width) == (tf_width - bf_width - champfer * 2) \div 2

\* the x and y lists built by the NU branch (lines 72-191)
NUBeamCx(beam_ht, tf_width) ==
    LET x0 == StartX(tf_width)
        x1 == x0 - champfer
        \* curve at bottom flange edge, left (lines 94-104)
        a1s == x1
        a1y == In16(85) - d_bot_flng
        a1e == x1 + Times(d_bot_flng, cos_theta_bot)
        \* curve at bottom of stem, left (lines 107-115)
        a2e == tf_width \div 2 - thick_w \div 2
        a2y == In16(88) + In16(85) + d_bot_stem
        a2s == a2e - Times(d_bot_stem, cos_theta_bot)
        \* curve at top of stem, left (lines 118-127)
        a3s == tf_width \div 2 - thick_w \div 2
        a3y == beam_ht - In16(41) - In16(28) - d_top_stem
        a3e == a3s - Times(d_top_stem, cos_theta_top)
        \* curve at top flange edge, left (lines 130-138)
        a4s == Times(d_top_flng, cos_theta_top)
        a4e == 0
        a4y == beam_ht - (In16(41) - d_top_flng)
        \* curve at top flange edge, right (lines 145-153)
        a5s == tf_width
        a5y == beam_ht - (In16(41) - d_top_flng)
        a5e == tf_width - Times(d_top_flng, cos_theta_top)
        \* curve at top of stem, right (lines 156-164)
        a6s == tf_width \div 2 + thick_w \div 2 + Times(d_top_stem, cos_theta_top)
        a6e == tf_width \div 2 + thick_w \div 2
        a6y == beam_ht - (In16(41) + In16(28) + d_top_stem)
        \* curve at bottom of stem, right (lines 167-175)
        a7s == tf_width \div 2 + thick_w \div 2
        a7y == In16(88) + In16(85) + d_bot_stem
        a7e == a7s + Times(d_bot_stem, cos_theta_bot)
        \* curve at bottom flange edge, right (lines 178-186)
        a8s == tf_width \div 2 + bf_width \div 2 - Times(d_bot_flng, cos_theta_bot)
        a8e == tf_width \div 2 + bf_width \div 2
        a8y == In16(85) - d_bot_flng
    IN  [kind |-> "lists",
         x |-> <<x0, x1, a1s>>
               \o ArcX(a1s, a1e) \o ArcX(a2s, a2e) \o ArcX(a3s, a3e) \o ArcX(a4s, a4e)
               \o <<0, tf_width>>
               \o ArcX(a5s, a5e) \o ArcX(a6s, a6e) \o ArcX(a7s, a7e) \o ArcX(a8s, a8e)
               \o <<a8e, a8e - champfer, StartX(tf_width)>>,
         y |-> <<0, champfer, a1y>>
               \o ArcY(a1s, a1e, R_flng, a1s, 1, a1y, 1)
               \o ArcY(a2s, a2e, R_stem, a2e, -1, a2y, -1)
               \o ArcY(a3s, a3e, R_stem, a3s, -1, a3y, 1)
               \o ArcY(a4s, a4e, R_flng, a4e, 1, a4y, -1)
               \o <<beam_ht, beam_ht>>
               \o ArcY(a5s, a5e, R_flng, a5s, -1, a5y, -1)
               \o ArcY(a6s, a6e, R_stem, a6e, 1, a6y, 1)
               \o ArcY(a7s, a7e, R_stem, a7s, 1, a7y, -1)
               \o ArcY(a8s, a8e, R_flng, a8e, -1, a8y, 1)
               \o <<champfer, 0, 0>>]

\* the scalars bound by x, y = 0, 0
ZeroGeometry == [kind |-> "scalars", x |-> 0, y |-> 0]

RegisteredRails ==
    {"39_SSCR", "39_OCR", "42_NU_O", "42_NU_C", "42_NU_M", "34_NU_O", "34_NU_C",
     "29_NE_O", "29_NE_C", "42_NJ", "32_NJ"}

\* the x and y lists of a registered rail shape for the height value ht
\* (lines 204-336); Q(n) is n quarter inches
Q(n) == n * 1200

RailTable(rail_shape, ht) ==
    LET e == Q(3)
    IN  CASE rail_shape = "39_SSCR" ->
               [kind |-> "lists",
                x |-> <<0, 0, e, Q(32) - e, Q(32), Q(40)>>,
                y |-> <<0, ht - e, ht, ht, ht - e, 0>>]
          [] rail_shape = "39_OCR" ->
               [kind |-> "lists",
                x |-> <<0, 0, e, 0, 0, e, Q(56) - e, Q(56), Q(56), Q(56) - e, e, Q(40), Q(40)>>,
                y |-> <<0, Q(48) - e, Q(48), Q(48) + e, ht - e, ht, ht, ht - e,
                        Q(48) + e, Q(48), Q(48), Q(48), 0>>]
          [] rail_shape = "42_NU_O" ->
               [kind |-> "lists",
                x |-> <<0, 0, e, 0, 0, e, Q(34) - e, Q(34), Q(38), Q(56), Q(56),
                        Q(42), e, Q(42), Q(42)>>,
                y |-> <<0, Q(44) - e, Q(44), Q(44) + e, ht - e, ht, ht, ht - e,
                        ht - Q(32), ht - Q(32) - Q(8), Q(44) + Q(4), Q(44), Q(44), Q(44), 0>>]
          [] rail_shape = "42_NU_C" ->
               [kind |-> "lists",
                x |-> <<0, 0, e, Q(34) - e, Q(34), Q(38), Q(56), Q(56), Q(42), Q(42)>>,
                y |-> <<0, ht - e, ht, ht, ht - e, ht - Q(32), ht - Q(32) - Q(8),
                        Q(44) + Q(4), Q(44), 0>>]
          [] rail_shape = "42_NU_M" ->
               [kind |-> "lists",
                x |-> <<Q(14), Q(14), 0, 0, Q(18), Q(22), Q(22) + e, Q(74) - e, Q(74),
                        Q(78), Q(96), Q(96), Q(82), Q(82)>>,
                y |-> <<0, Q(44), Q(48), Q(128), Q(136), Q(168) - e, Q(168), Q(168),
                        Q(168) - e, Q(136), Q(128), Q(48), Q(44), 0>>]
          [] rail_shape = "34_NU_O" ->
               [kind |-> "lists",
                x |-> <<0, 0, e, 0, 0, e, Q(56) - e, Q(56), Q(56), Q(56) - e, e, Q(42), Q(42)>>,
                y |-> <<0, Q(44) - e, Q(44), Q(44) + e, ht - e, ht, ht, ht - e,
                        Q(44) + e, Q(44), Q(44), Q(44), 0>>]
          [] rail_shape = "34_NU_C" ->
               [kind |-> "lists",
                x |-> <<0, 0, e, Q(56) - e, Q(56), Q(56), Q(56) - e, Q(42), Q(42)>>,
                y |-> <<0, ht - e, ht, ht, ht - e, Q(44) + e, Q(44), Q(44), 0>>]
          [] rail_shape = "29_NE_O" ->
               [kind |-> "lists",
                x |-> <<Q(4), Q(4), e, 0, 0, e, Q(56) - e, Q(56), Q(56), Q(56) - e, e,
                        Q(42), Q(42)>>,
                y |-> <<0, Q(52), Q(52), Q(52) + e, ht - e, ht, ht, ht - e,
                        Q(52) + e, Q(52), Q(52), Q(52), 0>>]
          [] rail_shape = "29_NE_C" ->
               [kind |-> "lists",
                x |-> <<Q(4), Q(4), e, 0, 0, e, Q(56) - e, Q(56), Q(56), Q(56) - e,
                        Q(42), Q(42)>>,
                y |-> <<0, Q(52), Q(52), Q(52) + e, ht - e, ht, ht, ht - e,
                        Q(52) + e, Q(52), Q(52), 0>>]
          [] rail_shape = "42_NJ" ->
               [kind |-> "lists",
                x |-> <<0, 0, e, Q(28) - e, Q(28), Q(28), Q(36), Q(64), Q(64)>>,
                y |-> <<0, ht - e, ht, ht, ht - e, ht - Q(40), Q(52), Q(12), 0>>]
          [] rail_shape = "32_NJ" ->
               [kind |-> "lists",
                x |-> <<0, 0, e, Q(28) - e, Q(28), Q(36), Q(64), Q(64)>>,
                y |-> <<0, ht - e, ht, ht, ht - e, Q(52), Q(12), 0>>]

\* the height value create_rail_cx reads (line 200)
RailHt == results.b_height

\* beam_rail_obj of the results: beam heights and rail heights in 1/4800 in,
\* top flange width in 1/4800 ft
BeamHeights == {Inch(35) + In16(6), Inch(53), Inch(63)}
RailHeights == {Inch(39), Inch(42)}
FlangeWidthsFt == {19300, 19200}
BeamFamilies == {"NU", "IT", "other"}

InitShape ==
    /\ mode = "shape"
    /\ pc = "start"
    /\ \E rs \in RegisteredRails \cup {"45_XX"} : inputs = [rail_shape |-> rs]
    /\ \E bh \in BeamHeights, rh \in RailHeights, tf \in FlangeWidthsFt, fam \in BeamFamilies :
          results = [b_height |-> bh, r_height |-> rh, tf_width |-> tf,
                     is_NU |-> (fam = "NU"), is_IT |-> (fam = "IT")]
    /\ c = NoObject
    /\ faces = <<>>
    /\ ret = NoObject
    /\ outcome = "none"

\* create_beam_cx(results)
CreateBeamCx ==
    /\ mode = "shape"
    /\ pc = "start"
    /\ pc' = "beam"
    /\ IF results.is_NU
         THEN /\ ret' = NUBeamCx(results.b_height, results.tf_width * 12)
              /\ outcome' = "returned"
         ELSE IF results.is_IT
                THEN /\ ret' = ZeroGeometry
                     /\ outcome' = "returned"
                \* neither branch binds x: `return x, y` raises
                ELSE /\ ret' = ret
                     /\ outcome' = "UnboundLocalError"
    /\ UNCHANGED <<mode, inputs, results, c, faces>>

\* create_rail_cx(inputs, results)
CreateRailCx ==
    /\ mode = "shape"
    /\ pc = "start"
    /\ pc' = "rail"
    /\ IF inputs.rail_shape \in RegisteredRails
         THEN ret' = RailTable(inputs.rail_shape, RailHt)
         ELSE ret' = ZeroGeometry
    /\ outcome' = "returned"
    /\ UNCHANGED <<mode, inputs, results, c, faces>>

NextShape == CreateBeamCx \/ CreateRailCx

SpecShape == InitShape /\ [][NextShape]_vars

(***************************************************************************)
(* Properties of the cross-section generator.                              *)
(***************************************************************************)
\* C3: a shape code that is not registered (a rail_shape outside the rail
\* table, a beam that is not of a supported family) ends in
\* UnsupportedShapeError, and no call returns zero geometry (x = 0, y = 0).
C3_UnregisteredShapeFails ==
    (mode = "shape" /\ pc \in {"beam", "rail"}) =>
       /\ (pc = "rail" /\ inputs.rail_shape \notin RegisteredRails)
             => outcome = "UnsupportedShapeError"
       /\ (pc = "beam" /\ ~results.is_NU) => outcome = "UnsupportedShapeError"
       /\ ~(outcome = "returned" /\ ret.kind = "scalars" /\ ret.x = 0 /\ ret.y = 0)

\* an unregistered rail shape for which the call returns x = 0, y = 0
C3_ZeroGeometryReturned ==
    /\ mode = "shape" /\ pc = "rail"
    /\ inputs.rail_shape \notin RegisteredRails
    /\ outcome = "returned"
    /\ ret.kind = "scalars" /\ ret.x = 0 /\ ret.y = 0

Abs(n) == IF n < 0 THEN 0 - n ELSE n

\* tolerance of the comparison, 1/16 inch: one unit of rounding in x moves
\* the integer square root by up to sqrt(2 R) units next to a tangent point
SymTol == In16(1)

\* C7: the polyline of create_beam_cx is symmetric about x = tf_width / 2:
\* for every vertex (x, y), the start point and the chamfer vertices
\* included, the polyline has a vertex (tf_width - x, y).
C7_BeamSymmetric ==
    (mode = "shape" /\ pc = "beam" /\ results.is_NU) =>
       LET tf_width == results.tf_width * 12
       IN  \A n \in 1..Len(ret.x) :
              \E m \in 1..Len(ret.x) :
                 /\ Abs(ret.x[m] - (tf_width - ret.x[n])) <= SymTol
                 /\ Abs(ret.y[m] - ret.y[n]) <= SymTol

\* the NU polyline whose start point has no mirror image
C7_StartPointNotMirrored ==
    /\ mode = "shape" /\ pc = "beam" /\ results.is_NU
    /\ ~ \E m \in 1..Len(ret.x) :
            /\ Abs(ret.x[m] - (results.tf_width * 12 - ret.x[1])) <= SymTol
            /\ Abs(ret.y[m] - ret.y[1]) <= SymTol

\* C8: for every registered rail shape the polyline is the fixed table of
\* the shape evaluated at the rail height and at no other dimension, so the
\* same shape code and rail height always give the same polyline.
C8_RailUsesRailHeight ==
    (mode = "shape" /\ pc = "rail" /\ inputs.rail_shape \in RegisteredRails) =>
       ret = RailTable(inputs.rail_shape, results.r_height)

\* a 39 in rail drawn as high as the 53 in beam
C8_RailAsHighAsBeam ==
    /\ mode = "shape" /\ pc = "rail"
    /\ inputs.rail_shape = "39_SSCR"
    /\ results.r_height = Inch(39) /\ results.b_height = Inch(53)
    /\ ret.y[3] = Inch(53)

\* ==========================================================================
\* Deck cross-section drawings : profile_curve_pdf ("Typical Cross-Section")
\* and deck_section ("Staging Plan"), and the scalings of create_plot and
\* bridge_figure_sta_elev_points.
\*
\* Transverse offsets are integers in 1/8 inch (the code holds them in feet
\* and multiplies by 12), rdwy_slope is in 1/1000, so an elevation
\* offset * 12 * rdwy_slope is an integer in 1/8000 inch.  A vertex is
\* recorded in domain coordinates (dx, dy), the page point being
\* (x_begin + cx_scale * dx, y_begin_deck + cx_scale * dy).  Stations and
\* profile elevations of the two plots are integers in feet.
\* ==========================================================================
MaxDeckBeams == 3

\* n feet in 1/8 inch
Ft(n) == n * 96

\* n inches of elevation in 1/8000 inch
ElevIn(n) == n * 8000

\* the 1 inch relief under a flange (the "- 1" of the notch elevations)
NotchDepth == ElevIn(1)

cant_len == Ft(3) + 48

\* beam_spa : 8 ft, the default 8.75 ft, and 3 ft, which validate() accepts
\* although it is less than the flange width
DeckSpacings == {Ft(8), Ft(8) + 72, Ft(3)}

DeckFlangeWidths == {386, 384}

DeckSlopes == {15, 20}

\* grade-line offsets : on the centre line of the second beam, 5 inches
\* right and 5 inches left of it, on its right flange edge, and midway between
\* beams 1 and 2
PGLChoices(spa, tf) ==
    {cant_len + spa, cant_len + spa + 40, cant_len + spa - 40,
     cant_len + spa + tf \div 2, cant_len + spa \div 2}

\* beam_layout_obj.beam_pos of beam i (0-based) : cantilever plus i spacings
beam_pos(spa, i) == cant_len + i * spa

\* the VPI and the grades of a crest curve, whose VPI lies above the profile,
\* and of a sag curve, whose VPI lies below it (elevations in feet, the
\* sampled profile lying between 1200 and 1207)
ProfileShapes ==
    {[elev_VPI |-> 1210, grade_1 |-> 5, grade_2 |-> -5],
     [elev_VPI |-> 1150, grade_1 |-> -5, grade_2 |-> 5]}

\* rdwy_width : the default 40 ft, and 0, which validate() accepts
RoadwayWidths == {40, 0}

\* deck_width : 0, which validate() accepts, the width the beams take with
\* equal cantilevers, and the default 42 ft
DeckWidths(n, spa) == {0, 2 * cant_len + (n - 1) * spa, Ft(42)}

InitDraw ==
    /\ mode = "draw"
    /\ pc = "ready"
    /\ \E n \in 2..MaxDeckBeams, spa \in DeckSpacings, tf \in DeckFlangeWidths,
          sl \in DeckSlopes, L \in {1, 400}, rise \in {0, 7} :
         \E pgl \in PGLChoices(spa, tf), dw \in DeckWidths(n, spa),
            vpi \in ProfileShapes, rw \in RoadwayWidths :
            /\ inputs = [n_beams |-> n, beam_spa |-> spa, PGL_loc |-> pgl,
                         rdwy_slope |-> sl,
                         deck_width |-> dw, rdwy_width |-> rw,
                         L_v_curve |-> L, elev_VPI |-> vpi.elev_VPI,
                         grade_1 |-> vpi.grade_1, grade_2 |-> vpi.grade_2,
                         sta_CL_sub |-> <<1000, 1100>>]
            /\ results = [tf_width |-> tf, b_height |-> 53, r_height |-> 39,
                          over_deck_t |-> 8, cant_len |-> cant_len,
                          beam_pos |-> [i \in 1..n |-> beam_pos(spa, i - 1)],
                          sta_VPC |-> 900, sta_VPT |-> 900 + L, span_sum |-> 100,
                          elev_min |-> 1200, elev_max |-> 1200 + rise,
                          sta_x_10_ft |-> <<1000, 1050, 1100>>,
                          offsets |-> <<0 - tf, tf>>]
    /\ c = NoObject
    /\ faces = <<>>
    /\ ret = NoObject
    /\ outcome = "none"

DeckVertex(dx, dy, beam, role) == [dx |-> dx, dy |-> dy, beam |-> beam, role |-> role]

x_under_deckMutant(to_pgl, spa, tf) == spa - tf

\* the run of deck bottom drawn beside a flange : to the next flange, or to
\* PGL_loc when that is nearer (to_pgl is the distance of the flange edge
\* that faces PGL_loc from PGL_loc)
x_under_deck(to_pgl, spa, tf) == Min2(to_pgl, spa - tf)

\* the lineTo calls of one pass of the "for i in range(n_beams)" loop, for the
\* beam whose flange starts at offset b
BeamNotch(b, i) ==
    LET PGL_loc    == inputs.PGL_loc
        tf         == results.tf_width
        spa        == inputs.beam_spa
        rdwy_slope == inputs.rdwy_slope
    IN  IF b < PGL_loc
          THEN LET under == x_under_deck(PGL_loc - b - tf, spa, tf)
               IN  << DeckVertex(b, b * rdwy_slope, i, "near"),
                      DeckVertex(b, b * rdwy_slope - NotchDepth, i, "notch"),
                      DeckVertex(b + tf, b * rdwy_slope - NotchDepth, i, "notch") >>
                   \o (IF b + tf > PGL_loc
                         THEN << DeckVertex(b + tf, (PGL_loc - tf \div 2) * rdwy_slope,
                                            i, "notch_end") >>
                         ELSE << DeckVertex(b + tf, (b + tf) * rdwy_slope, i, "notch_end"),
                                 DeckVertex(b + tf + under,
                                            (b + tf + under) * rdwy_slope,
                                            i, "under_deck") >>)
          ELSE LET under == x_under_deck(b - PGL_loc, spa, tf)
               IN  << DeckVertex(b - under,
                                 (PGL_loc - (b - PGL_loc - under)) * rdwy_slope,
                                 i, "under_deck"),
                      DeckVertex(b, (PGL_loc - (b - PGL_loc)) * rdwy_slope, i, "near"),
                      DeckVertex(b, (PGL_loc - (b - PGL_loc) - tf) * rdwy_slope - NotchDepth,
                                 i, "notch"),
                      DeckVertex(b + tf,
                                 (PGL_loc - (b - PGL_loc) - tf) * rdwy_slope - NotchDepth,
                                 i, "notch"),
                      DeckVertex(b + tf, (PGL_loc - (b - PGL_loc + tf)) * rdwy_slope,
                                 i, "notch_end") >>

\* the bottom of the deck : the moveTo at the left edge, the cantilever, the
\* beams in order, and the vertex at the right edge; beam_strt[i + 1] is the
\* flange start of beam i
DeckBottom(beam_strt) ==
    LET tf == results.tf_width
    IN  << DeckVertex(0, 0, -1, "edge"),
           DeckVertex(results.cant_len - tf \div 2,
                      (results.cant_len - tf \div 2) * inputs.rdwy_slope, -1, "cantilever") >>
        \o ConcatRange([i \in 0..(inputs.n_beams - 1) |-> BeamNotch(beam_strt[i + 1], i)],
                       0, inputs.n_beams - 1)
        \o << DeckVertex(inputs.deck_width,
                         (inputs.PGL_loc - (inputs.deck_width - inputs.PGL_loc))
                            * inputs.rdwy_slope, -1, "edge") >>

\* max_ht_cx, in 1/8000 inch
max_ht_cx ==
    ElevIn(results.b_height + results.over_deck_t + results.r_height + 1)
      + (inputs.rdwy_slope * inputs.deck_width) \div 2

\* the slope side chosen for a beam and the rise of its outline above
\* y_begin, (y_offset - y_begin) / cx_scale
BeamPlacement(left, b) ==
    IF left
      THEN [side |-> "left", dy |-> b * inputs.rdwy_slope]
      ELSE [side |-> "right",
            dy |-> (inputs.PGL_loc - (b + results.tf_width - inputs.PGL_loc))
                      * inputs.rdwy_slope]

\* the beams of the typical section : the side is chosen by the flange start
TypicalBeams ==
    [i \in 1..inputs.n_beams |->
        LET b == results.cant_len + (i - 1) * inputs.beam_spa - results.tf_width \div 2
        IN  BeamPlacement(b <= inputs.PGL_loc, b)]

\* the beams of the staging plan : the side is chosen by the centre line
StagingBeams ==
    [i \in 1..inputs.n_beams |->
        BeamPlacement(results.beam_pos[i] <= inputs.PGL_loc,
                      results.beam_pos[i] - results.tf_width \div 2)]

\* the letter page and the reportlab inch, in points
page_width == 612

inch == 72

\* avail_x, avail_y = width - inch - 10, 212 - (inch / 2 + 5)
avail_x == page_width - inch - 10

avail_y == 212 - (inch \div 2 + 5)

\* inch / 2 + 5 : where the available span starts on both axes
span_start == inch \div 2 + 5

\* avail_x / (deck_width * 12) > avail_y / max_ht_cx, the comparison of a
\* min() that picks the larger factor
XLimitsMutant(W, H) == avail_x * H > avail_y * 1000 * W

\* avail_x / (deck_width * 12) < avail_y / max_ht_cx, with the deck width W
\* in 1/8 inch and the height H in 1/8000 inch, both positive
XLimits(W, H) == avail_x * H < avail_y * 1000 * W

\* cx_scale, x_begin and y_begin of the typical cross-section, as the two
\* affine maps they define : a domain point (X, Y), X in 1/8 inch and Y in
\* 1/8000 inch, is drawn at
\*    x = x_begin + cx_scale * X / 8    = (x_0 + x_1 * X) / x_den
\*    y = y_begin + cx_scale * Y / 8000 = (y_0 + y_1 * Y) / y_den
\* if the x factor is the smaller one, cx_scale = avail_x / (W / 8),
\*    x_begin = inch / 2 + 5,
\*    y_begin = inch / 2 + 5 + (avail_y - max_ht_cx * cx_scale) / 2
\* else cx_scale = avail_y / (H / 8000),
\*    x_begin = (width - deck_width * 12 * cx_scale) / 2, y_begin = inch / 2 + 5
UniformMapper(W, H) ==
    IF XLimits(W, H)
      THEN [limit |-> "x",
            x_den |-> W, x_0 |-> span_start * W, x_1 |-> avail_x,
            y_den |-> 200 * W,
            y_0 |-> 200 * span_start * W + 100 * avail_y * W - (avail_x \div 10) * H,
            y_1 |-> avail_x \div 5]
      ELSE [limit |-> "y",
            x_den |-> 2 * H,
            x_0 |-> page_width * H - avail_y * 1000 * W,
            x_1 |-> 2 * avail_y * 1000,
            y_den |-> H, y_0 |-> span_start * H, y_1 |-> avail_y]

\* what a drawing step leaves : the operation, the two domain widths its
\* scale factors divide by, the mapping of the uniform scale, the beams it
\* placed and the vertices it drew
Drawing(op, wx, wy, map, beams, points) ==
    [kind |-> "drawing", op |-> op, wx |-> wx, wy |-> wy, map |-> map,
     beams |-> beams, points |-> points]

\* a division "a / w" of Python floats raises ZeroDivisionError when w = 0
Divides(widths) == IF 0 \in widths THEN "ZeroDivisionError" ELSE "returned"

\* profile_curve_pdf, "Typical Cross-Section" : the uniform scale
\* cx_scale = min(avail_x / (deck_width * 12), avail_y / max_ht_cx), then the
\* deck bottom with x_beam_loc = cant_len + i * beam_spa - tf_width / 2
ProfileCurvePdf ==
    /\ mode = "draw" /\ pc = "ready"
    /\ LET wx == inputs.deck_width
           wy == max_ht_cx
           x_beam_loc == [i \in 1..inputs.n_beams |->
                             results.cant_len + (i - 1) * inputs.beam_spa
                                - results.tf_width \div 2]
       IN  /\ outcome' = Divides({wx, wy})
           /\ ret' = Drawing("profile_curve_pdf", wx, wy,
                             IF 0 \in {wx, wy} THEN NoObject
                                               ELSE UniformMapper(wx, wy),
                             IF 0 \in {wx, wy} THEN <<>> ELSE TypicalBeams,
                             IF 0 \in {wx, wy} THEN <<>> ELSE DeckBottom(x_beam_loc))
    /\ pc' = "done"
    /\ UNCHANGED <<mode, inputs, results, c, faces>>

\* deck_section, "Staging Plan" : cx_scale = avail_x / (deck_width * 12),
\* max_ht_cx only multiplied, then the deck bottom with
\* beam_strt = beam_pos - tf_width / 2
DeckSection ==
    /\ mode = "draw" /\ pc = "ready"
    /\ LET wx == inputs.deck_width
           beam_strt == [i \in 1..inputs.n_beams |->
                            results.beam_pos[i] - results.tf_width \div 2]
       IN  /\ outcome' = Divides({wx})
           /\ ret' = Drawing("deck_section", wx, max_ht_cx, NoObject,
                             IF wx = 0 THEN <<>> ELSE StagingBeams,
                             IF wx = 0 THEN <<>> ELSE DeckBottom(beam_strt))
    /\ pc' = "done"
    /\ UNCHANGED <<mode, inputs, results, c, faces>>

\* page lengths are integers in 1/10 point
Tenths(n) == 10 * n

page_height == 792

\* a scaling lambda  v -> o + (v - dmin) / (dmax - dmin) * e : o_n is the
\* page position of dmin times (dmax - dmin), so that the page position of v
\* is Forward / (dmax - dmin); origin and extent are those of the destination
\* the function was given
AffineMap(name, dmin, dmax, o_n, e, origin, extent) ==
    [name |-> name, dmin |-> dmin, dmax |-> dmax, o_n |-> o_n, e |-> e,
     origin |-> origin, extent |-> extent]

Forward(map, v) == map.o_n + (v - map.dmin) * map.e

\* the destination create_plot is called with by profile_curve_pdf :
\* plot_x, plot_y = inch + 200, height - inch * 2.1 - 15 * 6
\* plot_width, plot_height = inch * 3, inch * 1.5
PlotDestination ==
    [x_offset |-> Tenths(inch + 200),
     y_offset |-> Tenths(page_height) - 21 * inch - Tenths(15 * 6),
     width |-> Tenths(inch * 3), height |-> 15 * inch]

\* (y_offset - bot_graph) * (max_elev - min_elev), the room create_plot
\* leaves under the graph : bot_graph is the least of y_offset,
\* scale_init(elev_VPI + grade_1) and scale_init(elev_VPI - grade_2)
BelowGraphMutant(min_elev, height) == 0 - Tenths(15)

BelowGraph(min_elev, height) ==
    Max2(0, Max2((min_elev - (inputs.elev_VPI + inputs.grade_1)) * height,
                 (min_elev - (inputs.elev_VPI - inputs.grade_2)) * height))

\* scale_x and scale_y of create_plot
PlotMappers(plot_start, plot_end, min_elev, max_elev) ==
    LET d == PlotDestination
    IN  << AffineMap("scale_x", plot_start, plot_end,
                     d.x_offset * (plot_end - plot_start), d.width,
                     d.x_offset, d.width),
           AffineMap("scale_y", min_elev, max_elev,
                     d.y_offset * (max_elev - min_elev)
                        + BelowGraph(min_elev, d.height)
                        + Tenths(15) * (max_elev - min_elev),
                     d.height, d.y_offset, d.height) >>

\* station_to_x and offset_to_y of bridge_figure_sta_elev_points :
\* plot_width = width - 1.25 * inch,
\* plot_height = rdwy_width / span.sum() * plot_width,
\* plot_x, plot_y = 0.75 * inch, title_y - plot_height - 0.1 * inch, with
\* title_y = height - 1.5 * inch - 8
FigureMappers(min_station, max_station, min_offset, max_offset) ==
    LET plot_width  == Tenths(page_width) - (125 * inch) \div 10
        plot_height == (inputs.rdwy_width * plot_width) \div results.span_sum
        plot_x      == (75 * inch) \div 10
        title_y     == Tenths(page_height) - 15 * inch - Tenths(8)
        plot_y      == title_y - plot_height - inch
    IN  << AffineMap("station_to_x", min_station, max_station,
                     plot_x * (max_station - min_station), plot_width,
                     plot_x, plot_width),
           AffineMap("offset_to_y", min_offset, max_offset,
                     plot_y * (max_offset - min_offset), plot_height,
                     plot_y, plot_height) >>

\* create_plot : the station range is padded to at least L_v_curve + 100 and
\* the elevation range by 10 below and 15 above
CreatePlot ==
    /\ mode = "draw" /\ pc = "ready"
    /\ LET plot_start == Min2(results.sta_VPC - 50, inputs.sta_CL_sub[1] - 20)
           plot_end   == Max2(results.sta_VPT + 50,
                              inputs.sta_CL_sub[Len(inputs.sta_CL_sub)] + 20)
           min_elev   == results.elev_min - 10
           max_elev   == results.elev_max + 15
           wx == plot_end - plot_start
           wy == max_elev - min_elev
       IN  /\ outcome' = Divides({wx, wy})
           /\ ret' = Drawing("create_plot", wx, wy,
                             IF 0 \in {wx, wy} THEN NoObject
                             ELSE PlotMappers(plot_start, plot_end, min_elev, max_elev),
                             <<>>, <<>>)
    /\ pc' = "done"
    /\ UNCHANGED <<mode, inputs, results, c, faces>>

\* the least and the greatest element of a non-empty sequence of integers
SeqMin(sq) == CHOOSE v \in {sq[i] : i \in 1..Len(sq)} :
                 \A i \in 1..Len(sq) : v <= sq[i]

SeqMax(sq) == CHOOSE v \in {sq[i] : i \in 1..Len(sq)} :
                 \A i \in 1..Len(sq) : v >= sq[i]

\* bridge_figure_sta_elev_points : both ranges are padded by 5 on each side
BridgeFigure ==
    /\ mode = "draw" /\ pc = "ready"
    /\ LET min_station == SeqMin(results.sta_x_10_ft) - 5
           max_station == SeqMax(results.sta_x_10_ft) + 5
           min_offset  == SeqMin(results.offsets) - 5
           max_offset  == SeqMax(results.offsets) + 5
           wx == max_station - min_station
           wy == max_offset - min_offset
       IN  /\ outcome' = Divides({wx, wy})
           /\ ret' = Drawing("bridge_figure_sta_elev_points", wx, wy,
                             IF 0 \in {wx, wy} THEN NoObject
                             ELSE FigureMappers(min_station, max_station,
                                                min_offset, max_offset),
                             <<>>, <<>>)
    /\ pc' = "done"
    /\ UNCHANGED <<mode, inputs, results, c, faces>>

NextDraw == ProfileCurvePdf \/ DeckSection \/ CreatePlot \/ BridgeFigure

SpecDraw == InitDraw /\ [][NextDraw]_vars

\* beam i (0-based) of the drawn section has its flange across the grade line
StraddlesPGL(i) ==
    LET b == results.cant_len + i * inputs.beam_spa - results.tf_width \div 2
    IN  b < inputs.PGL_loc /\ inputs.PGL_loc < b + results.tf_width

VerticesOf(i) == {ret.points[p] : p \in {q \in 1..Len(ret.points) : ret.points[q].beam = i}}

\* C2: in the deck profile of either drawing, for every girder whose top
\* flange straddles PGL_loc the relief notch ends at a vertex whose offset is
\* exactly PGL_loc and whose deck-bottom elevation is rdwy_slope * PGL_loc.
C2_NotchClippedAtPGL ==
    (mode = "draw" /\ pc = "done" /\ outcome = "returned"
       /\ ret.op \in {"profile_curve_pdf", "deck_section"}) =>
        \A i \in 0..(inputs.n_beams - 1) :
           StraddlesPGL(i) =>
              \E v \in VerticesOf(i) :
                 /\ v.role = "notch_end"
                 /\ v.dx = inputs.PGL_loc
                 /\ v.dy = inputs.rdwy_slope * inputs.PGL_loc

\* the failing case of C2: a flange lies across the grade line, off centre,
\* and its notch ends on the far flange edge, beyond PGL_loc, at the
\* elevation (PGL_loc - tf_width / 2) * 12 * rdwy_slope, in both drawings
C2_NotchEndsOnFlangeEdge ==
    /\ mode = "draw" /\ pc = "done" /\ outcome = "returned"
    /\ ret.op \in {"profile_curve_pdf", "deck_section"}
    /\ \E i \in 0..(inputs.n_beams - 1) :
          /\ StraddlesPGL(i)
          /\ inputs.PGL_loc # results.cant_len + i * inputs.beam_spa
          /\ \A v \in VerticesOf(i) : v.dx # inputs.PGL_loc
          /\ \E v \in VerticesOf(i) :
                /\ v.role = "notch_end"
                /\ v.dx > inputs.PGL_loc
                /\ v.dy = (inputs.PGL_loc - results.tf_width \div 2) * inputs.rdwy_slope
                /\ v.dy # inputs.rdwy_slope * inputs.PGL_loc

\* C9: a scaling over a domain whose range has zero width on either axis ends
\* in DegenerateDomainError before any point is mapped, and no scaling of the
\* drawing code divides by a zero-width domain range.
C9_DegenerateDomainFails ==
    (mode = "draw" /\ pc = "done") =>
        /\ (ret.wx = 0 \/ ret.wy = 0) =>
              outcome = "DegenerateDomainError" /\ ret.points = <<>>
        /\ outcome # "ZeroDivisionError"

\* the failing case of C9: deck_width = 0 passes validate(), the uniform
\* scale of the cross-section divides by deck_width * 12 and the drawing ends
\* in ZeroDivisionError
C9_DividesByZeroWidth ==
    /\ mode = "draw" /\ pc = "done"
    /\ inputs.deck_width = 0
    /\ ret.wx = 0
    /\ ret.op \in {"profile_curve_pdf", "deck_section"}
    /\ outcome = "ZeroDivisionError"

\* the padded domains of create_plot and bridge_figure_sta_elev_points never
\* have zero width
PaddedDomainsNonDegenerate ==
    (mode = "draw" /\ pc = "done"
       /\ ret.op \in {"create_plot", "bridge_figure_sta_elev_points"}) =>
        ret.wx > 0 /\ ret.wy > 0 /\ outcome = "returned"

\* ==========================================================================
\* BridgeCalculatorApp : the entry fields, validation and the handlers that
\* edit the stations, run the analysis, open and save projects and generate
\* the report (main.py, input_data.py).
\*
\* `inputs` holds the values of the entry fields (vc_vars, station_vars,
\* bridge_vars, span_config_vars), `c` the application object (its
\* current_inputs), `results` its analysis_results (NoObject for None),
\* `outcome` the status line or the dialog the last handler ended in.  `ret`
\* is a trace: whether run_analysis has been invoked, the curve length and
\* the validation errors of its last call, the set of curve lengths of the
\* vertical curves evaluated so far, and what the run that stored the
\* results held reported.  A span configuration is held as the number of
\* strands of its first row.  The dataclasses are taken to accept the fields
\* the entry fields are read into.
\* ==========================================================================
MaxStations == 3

CurveLengths == {-845, 0, 845}

StationLists == {<<11376>>, <<11624, 11500, 11376>>, <<11376, 11500, 11624>>}

\* create_default_span_config : straight_strands[0]
DefaultSpanConfig == 18

\* _create_default_span_vars : IntVar(value=0)
DefaultSpanVars == 0

BridgeInputs(L, stations, nb, spa, configs) ==
    [L_v_curve |-> L, sta_CL_sub |-> stations, n_beams |-> nb, beam_spa |-> spa,
     span_configs |-> configs]

\* create_default_inputs() : the dataclass defaults and one span
\* configuration per span
DefaultInputs ==
    BridgeInputs(845, <<11376, 11500, 11624>>, 5, 9,
                 <<DefaultSpanConfig, DefaultSpanConfig>>)

\* what a project file can hold : load_config checks nothing
FileInputs ==
    {DefaultInputs,
     BridgeInputs(845, <<>>, 5, 9, <<DefaultSpanConfig>>),
     BridgeInputs(845, <<11376>>, 5, 9, <<>>),
     BridgeInputs(0, <<11376, 11500>>, 5, 9, <<7, 7>>)}

\* what the user can type into n station fields and n span configurations
StationEdits(n) ==
    {[i \in 1..n |-> 11376 + 124 * (i - 1)], [i \in 1..n |-> 11624 - 124 * (i - 1)]}

SpanEdits(n) == [1..n -> {DefaultSpanVars, DefaultSpanConfig}]

FieldValues ==
    {[inputs EXCEPT !.L_v_curve = L, !.sta_CL_sub = st, !.span_configs = cf] :
        L \in {0, 845},
        st \in StationEdits(Len(inputs.sta_CL_sub)),
        cf \in SpanEdits(Len(inputs.span_configs))}

\* the test of the mutated validation, which lets a zero length through
CurveLengthRejectedMutant(L) == L < 0

\* "if self.vertical_curve.L_v_curve <= 0"
CurveLengthRejected(L) == L <= 0

num_spansMutant(inp) == Len(inp.sta_CL_sub)

\* BridgeInputs.num_spans
num_spans(inp) == Len(inp.sta_CL_sub) - 1

\* BridgeInputs.validate : the error messages, in the order of the checks
validate(inp) ==
    LET stations == inp.sta_CL_sub
    IN  (IF CurveLengthRejected(inp.L_v_curve)
           THEN <<"Curve length must be positive">> ELSE <<>>)
        \o (IF Len(stations) < 2
              THEN <<"At least 2 substructure stations required">> ELSE <<>>)
        \o (IF ~(\A i \in 1..(Len(stations) - 1) : stations[i] <= stations[i + 1])
              THEN <<"Substructure stations must be in ascending order">> ELSE <<>>)
        \o (IF inp.n_beams <= 0
              THEN <<"Number of beams must be positive">> ELSE <<>>)
        \o (IF inp.beam_spa <= 0
              THEN <<"Beam spacing must be positive">> ELSE <<>>)
        \o (IF Len(inp.span_configs) # num_spans(inp)
              THEN <<"Number of span configurations must match number of spans">>
              ELSE <<>>)

\* _get_inputs_from_gui : one span configuration per entry of span_config_vars
get_inputs_from_gui(gui) ==
    BridgeInputs(gui.L_v_curve, gui.sta_CL_sub, gui.n_beams, gui.beam_spa,
                 [i \in 1..Len(gui.span_configs) |-> gui.span_configs[i]])

\* _update_prestressing_spans : default variables are appended, or trailing
\* ones popped, until there are len(station_vars) - 1; with no station the
\* pop of the empty list raises IndexError
update_prestressing_spans(span_config_vars, n_stations) ==
    LET n == n_stations - 1
        have == Len(span_config_vars)
    IN  IF n < 0
          THEN [raised |-> TRUE, vars |-> <<>>]
          ELSE [raised |-> FALSE,
                vars |-> [i \in 1..n |-> IF i <= have THEN span_config_vars[i]
                                                     ELSE DefaultSpanVars]]

\* _load_inputs_to_gui : the fields after the load, and whether it raised
load_inputs_to_gui(gui, inp) ==
    LET upd == update_prestressing_spans(gui.span_configs, Len(inp.sta_CL_sub))
    IN  IF upd.raised
          THEN [raised |-> TRUE,
                gui |-> [gui EXCEPT !.L_v_curve = inp.L_v_curve,
                                    !.sta_CL_sub = inp.sta_CL_sub,
                                    !.span_configs = upd.vars]]
          ELSE [raised |-> FALSE,
                gui |-> BridgeInputs(inp.L_v_curve, inp.sta_CL_sub, inp.n_beams,
                                     inp.beam_spa,
                                     [i \in 1..Len(upd.vars) |->
                                         IF i <= Len(inp.span_configs)
                                           THEN inp.span_configs[i]
                                           ELSE upd.vars[i]])]

AppTrace(ran, L, errors, evaluated) ==
    [kind |-> "trace", ran |-> ran, L_v_curve |-> L, errors |-> errors,
     evaluated |-> evaluated, stored_by |-> "none"]

\* BridgeCalculatorApp.__init__
InitApp ==
    /\ mode = "app"
    /\ pc = "idle"
    /\ inputs = load_inputs_to_gui(BridgeInputs(0, <<>>, 0, 0, <<>>), DefaultInputs).gui
    /\ c = [kind |-> "app", current_inputs |-> DefaultInputs]
    /\ results = NoObject
    /\ faces = <<>>
    /\ ret = AppTrace(FALSE, 0, <<>>, {})
    /\ outcome = "Ready"

\* the user types into the entry fields
EditFields ==
    /\ mode = "app"
    /\ \E v \in FieldValues : inputs' = v
    /\ UNCHANGED <<mode, pc, results, c, faces, ret, outcome>>

\* _add_substructure_station
AddStation ==
    /\ mode = "app"
    /\ Len(inputs.sta_CL_sub) < MaxStations
    /\ LET station_vars == Append(inputs.sta_CL_sub, 0)
       IN  inputs' = [inputs EXCEPT
                        !.sta_CL_sub = station_vars,
                        !.span_configs =
                            update_prestressing_spans(@, Len(station_vars)).vars]
    /\ UNCHANGED <<mode, pc, results, c, faces, ret, outcome>>

RemoveAllowedMutant(n) == n > 1

\* "if len(self.station_vars) > 2"
RemoveAllowed(n) == n > 2

\* _remove_substructure_station
RemoveStation ==
    /\ mode = "app"
    /\ IF RemoveAllowed(Len(inputs.sta_CL_sub))
         THEN LET station_vars == SubSeq(inputs.sta_CL_sub, 1, Len(inputs.sta_CL_sub) - 1)
              IN  inputs' = [inputs EXCEPT
                               !.sta_CL_sub = station_vars,
                               !.span_configs =
                                   update_prestressing_spans(@, Len(station_vars)).vars]
         ELSE inputs' = inputs
    /\ UNCHANGED <<mode, pc, results, c, faces, ret, outcome>>

\* BridgeCalculatorApp.run_analysis, cancelled by the validation
RunAnalysisRejected ==
    /\ mode = "app"
    /\ validate(get_inputs_from_gui(inputs)) # <<>>
    /\ ret' = [ret EXCEPT !.ran = TRUE, !.L_v_curve = inputs.L_v_curve,
                          !.errors = validate(get_inputs_from_gui(inputs))]
    /\ outcome' = "Analysis cancelled - input validation failed"
    /\ UNCHANGED <<mode, pc, inputs, results, c, faces>>

\* what run_analysis stores in self.current_inputs (line 978)
StoredInputsMutant(current_inputs, old) == old

StoredInputs(current_inputs, old) == current_inputs

\* BridgeCalculatorApp.run_analysis with valid inputs : the analysis engine
\* builds the vertical curve from the inputs and evaluates it; it raises, or
\* returns the results, which are stored with the inputs before the summary
\* window is built, which can raise as well
RunAnalysisAccepted ==
    /\ mode = "app"
    /\ validate(get_inputs_from_gui(inputs)) = <<>>
    /\ \E ended \in {"engine raised", "summary raised", "completed"} :
          LET current_inputs == get_inputs_from_gui(inputs)
              report == IF ended = "completed"
                          THEN "Analysis completed successfully"
                          ELSE "Analysis failed - check inputs and try again"
          IN  /\ outcome' = report
              /\ IF ended = "engine raised"
                   THEN /\ UNCHANGED <<results, c>>
                        /\ ret' = [ret EXCEPT !.ran = TRUE,
                                              !.L_v_curve = inputs.L_v_curve,
                                              !.errors = <<>>,
                                              !.evaluated = @ \cup {inputs.L_v_curve}]
                   ELSE /\ results' = [kind |-> "results",
                                       L_v_curve |-> inputs.L_v_curve,
                                       of |-> current_inputs]
                        /\ c' = [c EXCEPT !.current_inputs =
                                             StoredInputs(current_inputs, @)]
                        /\ ret' = [ret EXCEPT !.ran = TRUE,
                                              !.L_v_curve = inputs.L_v_curve,
                                              !.errors = <<>>,
                                              !.evaluated = @ \cup {inputs.L_v_curve},
                                              !.stored_by = report]
    /\ UNCHANGED <<mode, pc, inputs, faces>>

\* BridgeCalculatorApp.generate_pdf : nothing without results, else
\* master_create_PDF evaluates results.vc_obj on the report's pages
GeneratePdf ==
    /\ mode = "app"
    /\ IF results = NoObject
         THEN /\ outcome' = "No Results"
              /\ UNCHANGED ret
         ELSE /\ outcome' = "PDF report generated"
              /\ ret' = [ret EXCEPT !.evaluated = @ \cup {results.L_v_curve}]
    /\ UNCHANGED <<mode, pc, inputs, results, c, faces>>

\* BridgeCalculatorApp.new_project, confirmed
NewProject ==
    /\ mode = "app"
    /\ c' = [c EXCEPT !.current_inputs = DefaultInputs]
    /\ results' = NoObject
    /\ ret' = [ret EXCEPT !.stored_by = "none"]
    /\ inputs' = load_inputs_to_gui(inputs, DefaultInputs).gui
    /\ outcome' = "New project created"
    /\ UNCHANGED <<mode, pc, faces>>

\* BridgeCalculatorApp.open_project : the file is loaded without validation;
\* an exception of _load_inputs_to_gui is caught and shown
OpenProject ==
    /\ mode = "app"
    /\ \E loaded \in FileInputs :
          /\ c' = [c EXCEPT !.current_inputs = loaded]
          /\ inputs' = load_inputs_to_gui(inputs, loaded).gui
          /\ outcome' = IF load_inputs_to_gui(inputs, loaded).raised
                          THEN "Failed to load project file"
                          ELSE "Project loaded"
    /\ results' = NoObject
    /\ ret' = [ret EXCEPT !.stored_by = "none"]
    /\ UNCHANGED <<mode, pc, faces>>

\* BridgeCalculatorApp.save_project : the entry fields are written to the
\* file, or the write fails
SaveProject ==
    /\ mode = "app"
    /\ \E saved \in BOOLEAN :
          outcome' = IF saved THEN "Project saved" ELSE "Failed to save project file"
    /\ UNCHANGED <<mode, pc, inputs, results, c, faces, ret>>

NextApp ==
    \/ EditFields \/ AddStation \/ RemoveStation
    \/ RunAnalysisRejected \/ RunAnalysisAccepted
    \/ GeneratePdf \/ NewProject \/ OpenProject \/ SaveProject

SpecApp == InitApp /\ [][NextApp]_vars

ElevDen(L) == 800 * L

StationsVPI == {11510, 200}

ElevationsVPI == {4485, 0}

Grades == {-5, -2, 3, 5}

ValidCurveLengths == {845, 400, 1}

\* VPC station = S - L/2, in 1/2 ft
sta_VPC(S, L) == 2 * S - L

\* VPT station = S + L/2, in 1/2 ft
sta_VPT(S, L) == 2 * S + L

\* VPC elevation = E - (g1 / 100) * (L / 2)
elev_VPC(vc) == vc.elev_VPI * 200 * (2 * vc.L) - vc.grade_1 * (2 * vc.L) * (2 * vc.L)

\* VPC-elevation + (g1 / 100) (station - VPC)
Tangent1(vc, station) ==
    elev_VPC(vc) + vc.grade_1 * (station - vc.sta_VPC) * 4 * vc.L

\* VPC-elevation + (g1 / 100) (station - VPC) + (r / 2) (station - VPC)^2,
\* r = (g2 - g1) / (100 L)
Parabola(vc, station) ==
    Tangent1(vc, station)
      + (vc.grade_2 - vc.grade_1) * (station - vc.sta_VPC) * (station - vc.sta_VPC)

\* the grade-2 tangent line through (VPT, elev(VPT))
Tangent2(vc, station) ==
    Parabola(vc, vc.sta_VPT) + vc.grade_2 * (station - vc.sta_VPT) * 4 * vc.L

elev(vc, station) ==
    IF station <= vc.sta_VPC THEN Tangent1(vc, station)
    ELSE IF station >= vc.sta_VPT THEN Tangent2(vc, station)
    ELSE Parabola(vc, station)

\* a grade line as create_plot draws it :
\* inp.elev_VPI + inp.grade / 100 * (sta - inp.sta_VPI)
GradeLineMutant(inp, grade, station) ==
    inp.elev_VPI * 200 * (2 * inp.L_v_curve)
       - grade * (station - 2 * inp.sta_VPI) * 4 * inp.L_v_curve

GradeLine(inp, grade, station) ==
    inp.elev_VPI * 200 * (2 * inp.L_v_curve)
       + grade * (station - 2 * inp.sta_VPI) * 4 * inp.L_v_curve

InitCurve ==
    /\ mode = "curve"
    /\ pc = "ready"
    /\ \E S \in StationsVPI, E \in ElevationsVPI, g1 \in Grades, g2 \in Grades,
          L \in ValidCurveLengths :
         inputs = [sta_VPI |-> S, elev_VPI |-> E, grade_1 |-> g1, grade_2 |-> g2,
                   L_v_curve |-> L, sta_CL_sub |-> <<S - 124, S + 124>>]
    /\ results = NoObject
    /\ c = NoObject
    /\ faces = <<>>
    /\ ret = NoObject
    /\ outcome = "none"

\* the analysis derives the curve once from the validated inputs
BuildCurve ==
    /\ mode = "curve" /\ pc = "ready"
    /\ results' = [kind |-> "vc", L |-> inputs.L_v_curve,
                   elev_VPI |-> inputs.elev_VPI,
                   grade_1 |-> inputs.grade_1, grade_2 |-> inputs.grade_2,
                   sta_VPC |-> sta_VPC(inputs.sta_VPI, inputs.L_v_curve),
                   sta_VPT |-> sta_VPT(inputs.sta_VPI, inputs.L_v_curve)]
    /\ pc' = "built"
    /\ UNCHANGED <<mode, inputs, c, faces, ret, outcome>>

\* the stations create_plot evaluates : the ends of the plot, the curve ends
\* and their neighbours, the VPI and the abutments
PlotStations ==
    LET plot_start == Min2(results.sta_VPC - 100, 2 * inputs.sta_CL_sub[1] - 40)
        plot_end   == Max2(results.sta_VPT + 100,
                           2 * inputs.sta_CL_sub[Len(inputs.sta_CL_sub)] + 40)
    IN  {plot_start, plot_end, results.sta_VPC - 1, results.sta_VPC,
         results.sta_VPC + 1, 2 * inputs.sta_VPI, results.sta_VPT - 1,
         results.sta_VPT, results.sta_VPT + 1,
         2 * inputs.sta_CL_sub[1], 2 * inputs.sta_CL_sub[Len(inputs.sta_CL_sub)]}

\* one evaluation vc.elev(sta) of create_plot
EvalElev ==
    /\ mode = "curve" /\ pc = "built"
    /\ \E station \in PlotStations :
          ret' = [kind |-> "elev", station |-> station,
                  value |-> elev(results, station)]
    /\ outcome' = "returned"
    /\ UNCHANGED <<mode, pc, inputs, results, c, faces>>

NextCurve == BuildCurve \/ EvalElev

SpecCurve == InitCurve /\ [][NextCurve]_vars

\* C12: VPC = S - L/2 and VPT = S + L/2 (11087.5 and 11932.5 for S = 11510,
\* L = 845); at station VPC the parabola equals the grade-1 line and at VPT
\* the grade-2 line; for every station <= VPC or >= VPT elev equals the
\* corresponding grade line.
C12_ContinuousAtCurveEnds ==
    (mode = "curve" /\ pc = "built") =>
       /\ 2 * results.sta_VPC = 2 * (2 * inputs.sta_VPI) - 2 * inputs.L_v_curve
       /\ 2 * results.sta_VPT = 2 * (2 * inputs.sta_VPI) + 2 * inputs.L_v_curve
       /\ (inputs.sta_VPI = 11510 /\ inputs.L_v_curve = 845) =>
             results.sta_VPC = 22175 /\ results.sta_VPT = 23865
       /\ Parabola(results, results.sta_VPC)
            = GradeLine(inputs, inputs.grade_1, results.sta_VPC)
       /\ Parabola(results, results.sta_VPT)
            = GradeLine(inputs, inputs.grade_2, results.sta_VPT)
       /\ ret # NoObject =>
             /\ ret.station <= results.sta_VPC =>
                   ret.value = GradeLine(inputs, inputs.grade_1, ret.station)
             /\ ret.station >= results.sta_VPT =>
                   ret.value = GradeLine(inputs, inputs.grade_2, ret.station)

\* the default curve evaluated at its VPT, where the grades differ
C12_Witness ==
    /\ mode = "curve" /\ pc = "built"
    /\ inputs.sta_VPI = 11510 /\ inputs.L_v_curve = 845
    /\ inputs.grade_1 = 5 /\ inputs.grade_2 = -5
    /\ ret # NoObject
    /\ ret.station = 23865
    /\ ret.value = GradeLine(inputs, inputs.grade_2, 23865)
    /\ ret.value # GradeLine(inputs, inputs.grade_1, 23865)

\* the vertices of girder i with the given role, in drawing order
RoleOf(i, role) == {v \in VerticesOf(i) : v.role = role}

\* the offset of the flange start of girder i (0-based)
FlangeStart(i) == results.cant_len + i * inputs.beam_spa - results.tf_width \div 2

\* the run of deck bottom drawn next to the flange of girder i on its grade
\* line side, from the flange edge that faces PGL_loc : positive when it
\* runs towards PGL_loc
ReliefWidth(i, v) ==
    IF FlangeStart(i) < inputs.PGL_loc
      THEN v.dx - (FlangeStart(i) + results.tf_width)
      ELSE FlangeStart(i) - v.dx

\* the distance of that flange edge from PGL_loc
EdgeToPGL(i) ==
    IF FlangeStart(i) < inputs.PGL_loc
      THEN inputs.PGL_loc - (FlangeStart(i) + results.tf_width)
      ELSE FlangeStart(i) - inputs.PGL_loc

C13_NegativeReliefDrawn ==
    /\ mode = "draw" /\ pc = "done" /\ outcome = "returned"
    /\ ret.op \in {"profile_curve_pdf", "deck_section"}
    /\ inputs.beam_spa < results.tf_width
    /\ \E i \in 0..(inputs.n_beams - 1) :
          \E v \in RoleOf(i, "under_deck") :
             /\ ReliefWidth(i, v) = inputs.beam_spa - results.tf_width
             /\ ReliefWidth(i, v) < 0

RoofLine(x) ==
    IF x <= inputs.PGL_loc THEN inputs.rdwy_slope * x
    ELSE inputs.rdwy_slope * (2 * inputs.PGL_loc - x)

\* C14: every deck-bottom vertex that is not on a notch floor lies on the
\* roof line that breaks at PGL_loc, rdwy_slope * x for x <= PGL_loc and
\* rdwy_slope * (2 * PGL_loc - x) for x >= PGL_loc, for every girder
\* position, a girder whose flange straddles PGL_loc included.
C14_VerticesOnRoofLine ==
    (mode = "draw" /\ pc = "done" /\ outcome = "returned"
       /\ ret.op \in {"profile_curve_pdf", "deck_section"}) =>
        \A p \in 1..Len(ret.points) :
           ret.points[p].role # "notch" =>
              ret.points[p].dy = RoofLine(ret.points[p].dx)

\* the failing case of C14: the flange of a girder straddles PGL_loc off
\* centre, and the vertex that ends its notch is off the roof line while
\* every other vertex off the notch floors is on it
C14_NotchEndOffRoofLine ==
    /\ mode = "draw" /\ pc = "done" /\ outcome = "returned"
    /\ ret.op \in {"profile_curve_pdf", "deck_section"}
    /\ \E i \in 0..(inputs.n_beams - 1) :
          /\ StraddlesPGL(i)
          /\ \E v \in RoleOf(i, "notch_end") : v.dy # RoofLine(v.dx)
    /\ \A p \in 1..Len(ret.points) :
          ret.points[p].role \notin {"notch", "notch_end"} =>
             ret.points[p].dy = RoofLine(ret.points[p].dx)

\* the beams the other view places for the same inputs
OtherViewBeams ==
    IF ret.op = "profile_curve_pdf" THEN StagingBeams ELSE TypicalBeams

\* C15: for the same geometry the typical-section view and the staging-plan
\* view choose the same slope side and the same vertical position for every
\* girder and draw the same deck-bottom vertices, also for a girder whose
\* flange near edge is at or left of PGL_loc while its centre line is right
\* of PGL_loc.
C15_ViewsAgree ==
    (mode = "draw" /\ pc = "done" /\ outcome = "returned"
       /\ ret.op \in {"profile_curve_pdf", "deck_section"}) =>
        /\ ret.beams = OtherViewBeams
        /\ ret.points = DeckBottom([i \in 1..inputs.n_beams |-> FlangeStart(i - 1)])

\* the failing case of C15: the flange near edge of a girder is left of
\* PGL_loc and its centre line right of it; the typical section places the
\* girder on the left slope and the staging plan on the right slope, at a
\* different height, below the same deck bottom
C15_ViewsDisagree ==
    /\ mode = "draw" /\ pc = "done" /\ outcome = "returned"
    /\ ret.op \in {"profile_curve_pdf", "deck_section"}
    /\ inputs.beam_spa >= results.tf_width
    /\ ret.points = DeckBottom([i \in 1..inputs.n_beams |-> FlangeStart(i - 1)])
    /\ \E i \in 1..inputs.n_beams :
          /\ FlangeStart(i - 1) <= inputs.PGL_loc
          /\ results.beam_pos[i] > inputs.PGL_loc
          /\ TypicalBeams[i].side = "left"
          /\ StagingBeams[i].side = "right"
          /\ TypicalBeams[i].dy # StagingBeams[i].dy
          /\ ret.beams[i] # OtherViewBeams[i]

\* the two views differ for no other girder
ViewsAgreeElsewhere ==
    (mode = "draw" /\ pc = "done" /\ outcome = "returned"
       /\ ret.op \in {"profile_curve_pdf", "deck_section"}) =>
        \A i \in 1..inputs.n_beams :
           ~(FlangeStart(i - 1) <= inputs.PGL_loc /\ results.beam_pos[i] > inputs.PGL_loc)
              => ret.beams[i] = OtherViewBeams[i]

RECURSIVE GCD(_, _)
\* the greatest common divisor of two naturals, not both zero
GCD(a, b) == IF b = 0 THEN a ELSE GCD(b, a % b)

\* a / b = p / q for positive integers, compared in lowest terms
SameRatio(a, b, p, q) ==
    /\ a \div GCD(a, b) = p \div GCD(p, q)
    /\ b \div GCD(a, b) = q \div GCD(p, q)

UniformDrawn ==
    /\ mode = "draw" /\ pc = "done" /\ outcome = "returned"
    /\ ret.op = "profile_curve_pdf"

\* C16: in uniform mode the mapper uses the smaller of the two per-axis
\* scale factors for both axes, places the limiting axis at the start of its
\* available span, which it fills, and centres the other axis within its
\* available span, so that every point of the domain rectangle maps inside
\* the destination rectangle.
C16_UniformModeFits ==
    UniformDrawn =>
       LET map == ret.map
           W == ret.wx
           H == ret.wy
       IN  \* the limiting axis is the one with the smaller factor
           /\ map.limit = "x" <=> avail_x * H < avail_y * 1000 * W
           \* one scale for both axes : points per inch of x and of y
           /\ SameRatio(map.x_1, map.x_den, 1000 * map.y_1, map.y_den)
           \* the limiting axis starts at the start of its span and fills it
           /\ map.limit = "x" =>
                 /\ map.x_0 = span_start * map.x_den
                 /\ map.x_0 + map.x_1 * W = (span_start + avail_x) * map.x_den
                 \* the other axis is centred
                 /\ map.y_0 - span_start * map.y_den
                      = (span_start + avail_y) * map.y_den - (map.y_0 + map.y_1 * H)
           /\ map.limit = "y" =>
                 /\ map.y_0 = span_start * map.y_den
                 /\ map.y_0 + map.y_1 * H = (span_start + avail_y) * map.y_den
                 /\ map.x_0 - span_start * map.x_den
                      = (span_start + avail_x) * map.x_den - (map.x_0 + map.x_1 * W)
           \* every point of the domain rectangle lies in the destination
           /\ \A X \in {0, W \div 2, W}, Y \in {0, H \div 2, H} :
                 /\ span_start * map.x_den <= map.x_0 + map.x_1 * X
                 /\ map.x_0 + map.x_1 * X <= (span_start + avail_x) * map.x_den
                 /\ span_start * map.y_den <= map.y_0 + map.y_1 * Y
                 /\ map.y_0 + map.y_1 * Y <= (span_start + avail_y) * map.y_den

\* a narrow deck : the height limits the scale and the section is centred
\* between the margins, with room left on both sides
C16_Witness ==
    /\ UniformDrawn
    /\ ret.map.limit = "y"
    /\ ret.map.x_0 > span_start * ret.map.x_den
    /\ ret.map.x_0 + ret.map.x_1 * ret.wx < (span_start + avail_x) * ret.map.x_den

\* a wide deck : the width limits the scale
C16_WidthLimits ==
    /\ UniformDrawn
    /\ ret.map.limit = "x"
    /\ ret.map.y_0 > span_start * ret.map.y_den

MappersBuilt ==
    /\ mode = "draw" /\ pc = "done" /\ outcome = "returned"
    /\ ret.op \in {"create_plot", "bridge_figure_sta_elev_points"}

\* the domain points a mapper is tried on
MapSamples(map) == {map.dmin, map.dmin + 1, (map.dmin + map.dmax) \div 2, map.dmax}

\* mapping v forward and back through the inverse of the affine map that
\* sends dmin to the page position o_n / (dmax - dmin) and dmax to that
\* position plus the extent gives v again
RoundTrips(map, o_n, v) ==
    /\ map.extent # 0
    /\ (Forward(map, v) - o_n) % map.extent = 0
    /\ map.dmin + (Forward(map, v) - o_n) \div map.extent = v

\* C17 as stated: on a valid domain every per-axis mapping the drawing code
\* builds sends the domain minimum to the destination origin and the domain
\* maximum to origin + extent, and a point mapped forward and back through
\* the inverse affine map is recovered.
C17_AsStated ==
    MappersBuilt =>
       \A n \in 1..Len(ret.map) :
          LET map == ret.map[n]
              den == map.dmax - map.dmin
          IN  /\ Forward(map, map.dmin) = map.origin * den
              /\ Forward(map, map.dmax) = (map.origin + map.extent) * den
              /\ \A v \in MapSamples(map) : RoundTrips(map, map.origin * den, v)

\* the page position of the domain minimum, times (dmax - dmin) : the
\* destination origin, but for scale_y of create_plot, which is raised by 15
\* points and by the room the lower of elev_VPI + grade_1 and
\* elev_VPI - grade_2 takes below the domain minimum
ImageOfMinimum(map) ==
    LET den == map.dmax - map.dmin
        low == Min2(inputs.elev_VPI + inputs.grade_1,
                    inputs.elev_VPI - inputs.grade_2)
    IN  IF map.name # "scale_y" THEN map.origin * den
        ELSE IF low >= map.dmin THEN (map.origin + Tenths(15)) * den
        ELSE (map.origin + Tenths(15)) * den + (map.dmin - low) * map.extent

\* C17: on a valid domain and for a destination of positive extent, every
\* per-axis mapping the drawing code builds is affine and invertible;
\* scale_x, station_to_x and offset_to_y send the domain minimum to the
\* destination origin and the maximum to origin + extent, scale_y of
\* create_plot sends them (y_offset - bot_graph) + 15 points higher.
C17_AffineInvertible ==
    MappersBuilt =>
       \A n \in 1..Len(ret.map) :
          LET map == ret.map[n]
              den == map.dmax - map.dmin
          IN  /\ Forward(map, map.dmin) = ImageOfMinimum(map)
              /\ Forward(map, map.dmax) = ImageOfMinimum(map) + map.extent * den
              /\ map.extent > 0 =>
                    /\ \A v \in MapSamples(map) :
                          RoundTrips(map, ImageOfMinimum(map), v)
                    /\ \A v, w \in MapSamples(map) :
                          v < w => Forward(map, v) < Forward(map, w)

\* the profile of a sag curve is drawn : its elevation scale is raised by
\* more than 15 points, and both scales are invertible
C17_Witness ==
    /\ MappersBuilt
    /\ ret.op = "create_plot"
    /\ inputs.elev_VPI + inputs.grade_1 < ret.map[2].dmin
    /\ ret.map[2].name = "scale_y"
    /\ Forward(ret.map[2], ret.map[2].dmin)
         > (ret.map[2].origin + Tenths(15)) * (ret.map[2].dmax - ret.map[2].dmin)
    /\ RoundTrips(ret.map[1], ImageOfMinimum(ret.map[1]), ret.map[1].dmax)
    /\ RoundTrips(ret.map[2], ImageOfMinimum(ret.map[2]), ret.map[2].dmax)

\* the top faces of interval i of girder j in span k, in drawing order
TopFacesAt(label, k, j, i) ==
    SelectSeq(faces, LAMBDA f : /\ f.label = label /\ f.kind = "top"
                                /\ f.k = k /\ f.j = j /\ f.i = i)

\* the point of the grade line at original row id : station, offset 0, and
\* the elevation of the bottom of the deck
MidlinePoint(id) == << sta_x_10_ft(id), 0, PGL_elev_bot_deck(id) >>

\* the top point of flange line col of the face set `label` at original row id
FlangeTopPoint(label, id, col) ==
    << sta_G(id, col), c.offsets[col + 1],
       IF label = "Minimum Haunch" THEN BS_Elev(id, col)
                                   ELSE Min_Haunch_Elev(id, col) - HaunchEps >>

\* C18: when the top face of an interval is split at the crown, each of the
\* two quads contains the same two midline points (station, 0, elevation of
\* the grade line - over-deck thickness) of samples i and i + 1 of the span;
\* the other two vertices of the first quad are the left-flange top points
\* of those samples, and those of the second quad the right-flange top points.
C18_SplitQuadsShareMidline ==
    Plotted =>
      \A label \in Labels, k \in SpanIdx, j \in GirderIdx :
         \A i \in 0..(results.s[k + 1] - 4) :
            LET tops == TopFacesAt(label, k, j, i)
                this == InteriorRows(k)[i + 1]
                next == InteriorRows(k)[i + 2]
            IN  Len(tops) = 2 =>
                  /\ tops[1].v = << FlangeTopPoint(label, this, 2 * j),
                                    MidlinePoint(this), MidlinePoint(next),
                                    FlangeTopPoint(label, next, 2 * j) >>
                  /\ tops[2].v = << MidlinePoint(this),
                                    FlangeTopPoint(label, this, 2 * j + 1),
                                    FlangeTopPoint(label, next, 2 * j + 1),
                                    MidlinePoint(next) >>

\* a split top face in the second span of a bridge : its midline points are
\* those of the first two interior samples of that span
C18_Witness ==
    /\ Plotted
    /\ results.ns = 2
    /\ \E j \in GirderIdx :
          LET tops == TopFacesAt("Minimum Haunch", 1, j, 0)
          IN  /\ Len(tops) = 2
              /\ tops[1].v[2] = MidlinePoint(results.s[1] + 1)
              /\ tops[2].v[4] = MidlinePoint(results.s[1] + 2)
              /\ tops[1].v[1][2] < 0 /\ tops[2].v[2][2] > 0

\* ---- the fillet regions of the girder polyline ---------------------------
NUBeamReturned ==
    mode = "shape" /\ pc = "beam" /\ outcome = "returned" /\ results.is_NU

\* the polyline positions of the 50 samples of fillet region b : regions 1
\* to 4 follow the 3 start vertices on the left side (bottom-flange edge,
\* bottom web transition, top web transition, top-flange edge), regions 5 to
\* 8 follow the 2 vertices of the flat top on the right side, in the
\* opposite order
RegionSamples(b) ==
    LET first == IF b <= 4 THEN 3 + 50 * (b - 1) + 1 ELSE 205 + 50 * (b - 5) + 1
    IN  first..(first + 49)

LeftRegions == 1..4
BottomRegions == {1, 2, 7, 8}
StemRegions == {2, 3, 6, 7}

\* C19: the girder polyline create_beam_cx returns for a supported (NU) shape
\* is not empty and is closed, its last vertex being its first vertex, and
\* it holds the samples of four fillet regions on each side (bottom-flange
\* edge, bottom web transition, top web transition, top-flange edge), 50
\* samples each.
C19_ClosedWithEightFillets ==
    NUBeamReturned =>
       LET tf_width == results.tf_width * 12
           beam_ht  == results.b_height
           last     == Len(ret.x)
           reach    == thick_w \div 2 + In16(126)
       IN  /\ ret.kind = "lists"
           /\ last > 0 /\ Len(ret.y) = last
           /\ ret.x[last] = ret.x[1] /\ ret.y[last] = ret.y[1]
           /\ last = 3 + 4 * 50 + 2 + 4 * 50 + 3
           /\ ret.y[204] = beam_ht /\ ret.y[205] = beam_ht
           /\ \A b \in 1..8 :
                 /\ ret.x[CHOOSE n \in RegionSamples(b) : n - 1 \notin RegionSamples(b)]
                      # ret.x[CHOOSE n \in RegionSamples(b) : n + 1 \notin RegionSamples(b)]
                 /\ \A n \in RegionSamples(b) :
                       /\ IF b \in LeftRegions THEN 2 * ret.x[n] <= tf_width
                                               ELSE 2 * ret.x[n] >= tf_width
                       /\ IF b \in BottomRegions THEN 2 * ret.y[n] < beam_ht
                                                 ELSE 2 * ret.y[n] > beam_ht
                       /\ IF b \in StemRegions
                            THEN Abs(2 * ret.x[n] - tf_width) <= 2 * reach
                            ELSE Abs(2 * ret.x[n] - tf_width) > 2 * reach

\* the polyline of a 53 in NU girder with a 48.25 in top flange : 408
\* vertices, from (4.1875, 0) back to (4.1875, 0)
C19_Witness ==
    /\ NUBeamReturned
    /\ results.b_height = Inch(53) /\ results.tf_width * 12 = Inch(48) + In16(4)
    /\ Len(ret.x) = 408
    /\ ret.x[1] = Inch(4) + In16(3) /\ ret.y[1] = 0
    /\ ret.x[408] = Inch(4) + In16(3) /\ ret.y[408] = 0

\* the radius of fillet region b : 2 in at a flange edge, 7.875 in at the stem
RegionRadius(b) == IF b \in StemRegions THEN Inch(7) + In16(14) ELSE Inch(2)

\* the centre of the arc of region b : level with the sample at the tangent
\* point on the vertical edge (the first sample of regions 1, 3, 5, 7, the
\* last sample of the others), one radius away from it, towards the girder
\* centre line at the bottom-flange edge and the top web transition, away
\* from it at the bottom web transition and the top-flange edge
RegionCentre(b) ==
    LET first  == CHOOSE n \in RegionSamples(b) : n - 1 \notin RegionSamples(b)
        last   == CHOOSE n \in RegionSamples(b) : n + 1 \notin RegionSamples(b)
        anchor == IF b \in {1, 3, 5, 7} THEN first ELSE last
        side   == IF b \in {1, 4, 6, 7} THEN 1 ELSE -1
    IN  [x |-> ret.x[anchor] + side * RegionRadius(b), y |-> ret.y[anchor]]

\* R^2 - x_offset^2 of sample n of region b
SqrtArgument(b, n) ==
    RegionRadius(b) * RegionRadius(b)
      - (ret.x[n] - RegionCentre(b).x) * (ret.x[n] - RegionCentre(b).x)

\* C20: every sample of every fillet arc of the girder profile lies on the
\* circle of the fillet radius (2 in at the flange edges, 7.875 in at the
\* stem) around the centre of its arc, to the rounding of the square root,
\* and the square-root argument R^2 - x_offset^2 is negative for no sample.
C20_SamplesOnFilletCircle ==
    NUBeamReturned =>
       \A b \in 1..8 :
          \A n \in RegionSamples(b) :
             LET dy == Abs(ret.y[n] - RegionCentre(b).y)
             IN  /\ SqrtArgument(b, n) >= 0
                 /\ dy * dy <= SqrtArgument(b, n)
                 /\ SqrtArgument(b, n) < (dy + 1) * (dy + 1)

\* the stem fillet of a 53 in girder : its samples run from the tangent
\* point on the web, where the argument is 0, to a point more than 5 in
\* above the centre of the arc
C20_Witness ==
    /\ NUBeamReturned
    /\ results.b_height = Inch(53)
    /\ SqrtArgument(2, 103) = 0
    /\ ret.y[103] = RegionCentre(2).y
    /\ SqrtArgument(2, 54) > Inch(5) * Inch(5)
    /\ RegionCentre(2).y - ret.y[54] > Inch(5)

\* ---- the handlers of the application ---------------------------------------
RunReportsNoSuccess ==
    {"Analysis cancelled - input validation failed",
     "Analysis failed - check inputs and try again"}

C22_AtLeastTwoStations ==
    /\ [](mode = "app" =>
            (Len(c.current_inputs.sta_CL_sub) >= 2 => Len(inputs.sta_CL_sub) >= 2))
    /\ [][(RemoveStation /\ Len(inputs.sta_CL_sub) = 2) => inputs' = inputs]_vars

\* the default project, loaded with 3 stations by New Project, after Remove
\* Station : 2 stations are left, and the first span has the loaded
\* configuration
C22_Witness ==
    /\ mode = "app"
    /\ c.current_inputs = DefaultInputs
    /\ inputs.sta_CL_sub = <<11376, 11500>>
    /\ inputs.span_configs = <<DefaultSpanConfig>>
    /\ outcome = "New project created"

SpanCountError == "Number of span configurations must match number of spans"

\* the span configurations that remain after a step are those held before it
RemainingSpansKept ==
    \A i \in 1..Min2(Len(inputs.span_configs), Len(inputs'.span_configs)) :
       inputs'.span_configs[i] = inputs.span_configs[i]

\* C23: after every Add Station, Remove Station and load of inputs, the
\* entry fields hold one span configuration per span (number of stations
\* - 1), the configurations of the spans that remain are unchanged by Add
\* Station and Remove Station, and the inputs extracted from the entry
\* fields never fail the span-count validation.
C23_SpanConfigsMatchSpans ==
    /\ [](mode = "app" =>
            /\ Len(inputs.span_configs) = Len(inputs.sta_CL_sub) - 1
            /\ \A n \in 1..Len(validate(get_inputs_from_gui(inputs))) :
                  validate(get_inputs_from_gui(inputs))[n] # SpanCountError)
    /\ [][(AddStation \/ RemoveStation) => RemainingSpansKept]_vars

\* a project file without stations has been opened : the load ended in an
\* exception, no station and no span configuration is held, and the inputs
\* extracted fail the span-count validation
C23_NoStationLoaded ==
    /\ mode = "app"
    /\ outcome = "Failed to load project file"
    /\ inputs.sta_CL_sub = <<>> /\ inputs.span_configs = <<>>
    /\ \E n \in 1..Len(validate(get_inputs_from_gui(inputs))) :
          validate(get_inputs_from_gui(inputs))[n] = SpanCountError

\* C26: whenever analysis_results is not None it is the result of analysing
\* the inputs held in current_inputs, so a report never combines the results
\* of one input set with the parameters of another, after any interleaving
\* of run, new, open, save and edits of the entry fields.
C26_ResultsOfCurrentInputs ==
    (mode = "app" /\ results # NoObject) => results.of = c.current_inputs

\* a report generated after the entry fields were edited : the results are
\* those of current_inputs, which are neither the defaults nor the inputs
\* now in the entry fields
C26_Witness ==
    /\ mode = "app"
    /\ outcome = "PDF report generated"
    /\ results # NoObject
    /\ results.of = c.current_inputs
    /\ c.current_inputs # DefaultInputs
    /\ get_inputs_from_gui(inputs) # c.current_inputs

ValidatedStations ==
    {<<>>, <<11376>>, <<11376, 11376>>, <<11376, 11500>>, <<11500, 11376>>,
     <<11376, 11500, 11624>>, <<11376, 11624, 11500>>}

ValidatedBeams == {-1, 0, 5}

ValidatedSpacings == {-9, 0, 9}

ValidatedSpanConfigs ==
    {<<>>, <<DefaultSpanConfig>>, <<DefaultSpanConfig, DefaultSpanConfig>>}

\* inputs as built by the dataclass constructors, by create_default_inputs
\* or from a project file
InitValidate ==
    /\ mode = "validate"
    /\ pc = "built"
    /\ \E L \in CurveLengths, stations \in ValidatedStations, nb \in ValidatedBeams,
          spa \in ValidatedSpacings, configs \in ValidatedSpanConfigs :
         inputs = BridgeInputs(L, stations, nb, spa, configs)
    /\ results = NoObject
    /\ c = NoObject
    /\ faces = <<>>
    /\ ret = NoObject
    /\ outcome = "none"

\* errors = inputs.validate()
Validate ==
    /\ mode = "validate" /\ pc = "built"
    /\ ret' = [kind |-> "errors", errors |-> validate(inputs)]
    /\ outcome' = "returned"
    /\ pc' = "validated"
    /\ UNCHANGED <<mode, inputs, results, c, faces>>

NextValidate == Validate

SpecValidate == InitValidate /\ [][NextValidate]_vars

\* the rules of the input contract, by the message of each
RuleViolated(inp) ==
    [m \in {"Curve length must be positive",
            "At least 2 substructure stations required",
            "Substructure stations must be in ascending order",
            "Number of beams must be positive",
            "Beam spacing must be positive",
            SpanCountError} |->
       CASE m = "Curve length must be positive" -> ~(inp.L_v_curve > 0)
         [] m = "At least 2 substructure stations required"
               -> ~(Len(inp.sta_CL_sub) >= 2)
         [] m = "Substructure stations must be in ascending order"
               -> \E i \in 1..Len(inp.sta_CL_sub), j \in 1..Len(inp.sta_CL_sub) :
                     i < j /\ inp.sta_CL_sub[i] > inp.sta_CL_sub[j]
         [] m = "Number of beams must be positive" -> ~(inp.n_beams > 0)
         [] m = "Beam spacing must be positive" -> ~(inp.beam_spa > 0)
         [] OTHER -> Len(inp.span_configs) + 1 # Len(inp.sta_CL_sub)]

\* C24: validate returns an empty list exactly when the curve length is
\* positive, there are at least 2 stations, the stations are in ascending
\* order, the number of beams and the beam spacing are positive and there is
\* one span configuration per span; otherwise it returns one message per
\* violated rule, and it raises nothing, also for an empty station list.
C24_OneMessagePerViolatedRule ==
    (mode = "validate" /\ pc = "validated") =>
       LET errors == ret.errors
           rules  == RuleViolated(inputs)
       IN  /\ outcome = "returned"
           /\ (errors = <<>>) <=> (\A m \in DOMAIN rules : ~rules[m])
           /\ \A m \in DOMAIN rules :
                 Cardinality({n \in 1..Len(errors) : errors[n] = m})
                    = (IF rules[m] THEN 1 ELSE 0)
           /\ Len(errors) = Cardinality({m \in DOMAIN rules : rules[m]})

\* validate has returned for inputs without stations and without span
\* configurations : two messages, on the stations and on the span count
C24_Witness ==
    /\ mode = "validate" /\ pc = "validated"
    /\ inputs.sta_CL_sub = <<>> /\ inputs.span_configs = <<>>
    /\ inputs.L_v_curve > 0 /\ inputs.n_beams > 0 /\ inputs.beam_spa > 0
    /\ outcome = "returned"
    /\ ret.errors = <<"At least 2 substructure stations required", SpanCountError>>

(***************************************************************************)
(* ConfigManager : save_config and load_config                             *)
(* Of the fields of BridgeInfo the model keeps those that the two          *)
(* conversions and __post_init__ treat differently, and n_beams as one of   *)
(* the fields that are copied; f_c_i_beam is in tenths of ksi.             *)
(***************************************************************************)
\* the fields class BridgeInfo declares
BridgeInfoFields ==
    {"deck_width", "PGL_loc", "n_beams", "f_c_i_beam", "stg_line_rt", "stg_line_lt"}

\* the attributes _inputs_to_dict reads into the 'bridge_info' dictionary
SavedKeys ==
    {"deck_width", "PGL_loc", "n_beams", "brg_thick", "stg_line_rt", "stg_line_lt"}

\* the defaults of the dataclass; brg_thick is the default of the entry field
BridgeInfoDefaults ==
    [f \in BridgeInfoFields \cup {"brg_thick"} |->
       CASE f = "deck_width" -> 42
         [] f = "PGL_loc" -> 21
         [] f = "n_beams" -> 5
         [] f = "f_c_i_beam" -> 75
         [] f = "stg_line_rt" -> 20
         [] f = "stg_line_lt" -> 16
         [] OTHER -> 1]

\* the values a caller gives to the constructor
BridgeInfoValues ==
    [f \in BridgeInfoFields \cup {"brg_thick"} |->
       CASE f = "deck_width" -> {42, 40}
         [] f = "PGL_loc" -> {21, 25}
         [] f = "n_beams" -> {5}
         [] f = "f_c_i_beam" -> {75, 80}
         [] f = "stg_line_rt" -> {20, 24}
         [] f = "stg_line_lt" -> {16, 12}
         [] OTHER -> {1, 2}]

\* the class as input_data.py declares it, and with the field brg_thick that
\* config_manager.py and main.py read
DeclaredFields == {BridgeInfoFields, BridgeInfoFields \cup {"brg_thick"}}

\* BridgeInputs.__post_init__
post_init(bi) ==
    LET PGL_loc == IF bi["PGL_loc"] = 21 /\ bi["deck_width"] # 42
                     THEN bi["deck_width"] \div 2 ELSE bi["PGL_loc"]
    IN  [f \in DOMAIN bi |->
           CASE f = "PGL_loc" -> PGL_loc
             [] f = "stg_line_rt" /\ bi[f] = 20 -> PGL_loc - 1
             [] f = "stg_line_lt" /\ bi[f] = 16 -> PGL_loc - 5
             [] OTHER -> bi[f]]

\* _inputs_to_dict : reading an attribute the object does not have raises
inputs_to_dict(x) ==
    IF SavedKeys \subseteq DOMAIN x.bridge_info
      THEN [kind |-> "dict", sta_CL_sub |-> x.sta_CL_sub,
            bridge_info |-> [k \in SavedKeys |-> x.bridge_info[k]]]
      ELSE [kind |-> "AttributeError"]

\* _dict_to_inputs : BridgeInfo(**config_dict['bridge_info']), the fields
\* without a key take their defaults, then __post_init__
dict_to_inputs(d, declared) ==
    IF DOMAIN d.bridge_info \subseteq declared
      THEN [kind |-> "inputs", sta_CL_sub |-> d.sta_CL_sub,
            bridge_info |->
               post_init([f \in declared |->
                            IF f \in DOMAIN d.bridge_info
                              THEN d.bridge_info[f] ELSE BridgeInfoDefaults[f]])]
      ELSE [kind |-> "TypeError"]

\* x = BridgeInputs(...) as the constructor returns it
InitConfig ==
    /\ mode = "config"
    /\ pc = "built"
    /\ \E declared \in DeclaredFields, stations \in StationLists :
         \E dw \in BridgeInfoValues["deck_width"], pgl \in BridgeInfoValues["PGL_loc"],
            nb \in BridgeInfoValues["n_beams"], fci \in BridgeInfoValues["f_c_i_beam"],
            rt \in BridgeInfoValues["stg_line_rt"], lt \in BridgeInfoValues["stg_line_lt"],
            brg \in BridgeInfoValues["brg_thick"] :
           inputs = [sta_CL_sub |-> stations,
                     bridge_info |->
                        post_init([f \in declared |->
                                     CASE f = "deck_width" -> dw
                                       [] f = "PGL_loc" -> pgl
                                       [] f = "n_beams" -> nb
                                       [] f = "f_c_i_beam" -> fci
                                       [] f = "stg_line_rt" -> rt
                                       [] f = "stg_line_lt" -> lt
                                       [] OTHER -> brg])]
    /\ results = NoObject
    /\ c = NoObject
    /\ faces = <<>>
    /\ ret = NoObject
    /\ outcome = "none"

\* save_config(x, filepath) : c is the file
SaveConfig ==
    /\ mode = "config" /\ pc = "built"
    /\ LET config_dict == inputs_to_dict(inputs)
       IN  IF config_dict.kind = "dict"
             THEN c' = config_dict /\ outcome' = "True"
             ELSE c' = c /\ outcome' = "False"
    /\ pc' = "saved"
    /\ UNCHANGED <<mode, inputs, results, faces, ret>>

\* load_config(filepath) : None when the file cannot be opened or converted
LoadConfig ==
    /\ mode = "config" /\ pc = "saved"
    /\ LET loaded == IF c = NoObject THEN [kind |-> "FileNotFoundError"]
                     ELSE dict_to_inputs(c, DOMAIN inputs.bridge_info)
       IN  ret' = IF loaded.kind = "inputs" THEN loaded ELSE [kind |-> "None"]
    /\ pc' = "loaded"
    /\ UNCHANGED <<mode, inputs, results, c, faces, outcome>>

NextConfig == SaveConfig \/ LoadConfig

SpecConfig == InitConfig /\ [][NextConfig]_vars

\* C25: saving a configuration and loading it back is the identity : the
\* inputs returned by load_config equal the inputs saved in every field,
\* including f_c_i_beam, PGL_loc and the two stage lines.
C25_SaveThenLoadIsIdentity ==
    (mode = "config" /\ pc = "loaded") =>
       /\ outcome = "True"
       /\ ret.kind = "inputs"
       /\ ret.sta_CL_sub = inputs.sta_CL_sub
       /\ \A f \in DOMAIN inputs.bridge_info :
             ret.bridge_info[f] = inputs.bridge_info[f]

\* the class as declared in input_data.py : save_config has returned False
\* without writing a file, and load_config has returned None
C25_NothingSaved ==
    /\ mode = "config" /\ pc = "loaded"
    /\ DOMAIN inputs.bridge_info = BridgeInfoFields
    /\ outcome = "False"
    /\ c = NoObject
    /\ ret.kind = "None"

\* with a class that has brg_thick the file is written and loaded, and
\* f_c_i_beam, which has no key in the file, comes back as the default
C25_ConcreteStrengthLost ==
    /\ mode = "config" /\ pc = "loaded"
    /\ outcome = "True"
    /\ ret.kind = "inputs"
    /\ inputs.bridge_info["f_c_i_beam"] = 80
    /\ ret.bridge_info["f_c_i_beam"] = 75
    /\ \A f \in DOMAIN inputs.bridge_info \ {"f_c_i_beam"} :
          ret.bridge_info[f] = inputs.bridge_info[f]

(***************************************************************************)
(* StationElevationTable : generate_multi_page_pdf                         *)
(* Lengths on the page are in points (letter : 612 wide, inch = 72).       *)
(***************************************************************************)
MaxPageBeams == 7

\* results.stations_obj.s : the number of points of each span
PageSpanPoints ==
    UNION {[1..ns -> 1..3] : ns \in 1..2}

\* the bottom of the figure, returned by bridge_figure_sta_elev_points
FigureBottoms == {100, 120, 140, 160, 190}

\* "max_beam_cols = (int((width - 0.5 * inch - 2.4 * inch) // 58) // 2) * 2",
\* in tenths of a point
max_beam_cols == (((6120 - 360 - 1728) \div 580) \div 2) * 2

\* "max_rows = int((bot_fig_y - 1.5 * inch) // 25)"
max_rows(bot_fig_y) == (bot_fig_y - 108) \div 25

\* create_beam_titles
create_beam_titles(n_beams) ==
    [col \in 1..(2 * n_beams) |->
       [beam |-> (col + 1) \div 2, flange |-> IF col % 2 = 1 THEN "LF" ELSE "RF"]]

\* the label of one point of one span (0-based span_idx and span_point)
StationLabel(ns, s, span_idx, span_point) ==
    IF span_idx = 0 /\ span_point = 0
      THEN [text |-> "Abutment 1 CL Bearing:", n |-> 0, point |-> 0]
    ELSE IF span_idx > 0 /\ span_point = 0
      THEN [text |-> "Pier Downstation CL Bearing:", n |-> span_idx, point |-> 0]
    ELSE IF span_idx = ns - 1 /\ span_point = s[span_idx + 1] - 1
      THEN [text |-> "Abutment 2 CL Bearing:", n |-> 0, point |-> 0]
    ELSE IF span_idx < ns - 1 /\ span_point = s[span_idx + 1] - 1
      THEN [text |-> "Pier Upstation CL Bearing:", n |-> span_idx + 1, point |-> 0]
    ELSE [text |-> "Span Shot Point:", n |-> span_idx + 1, point |-> span_point]

\* create_station_labels : one label per point, span after span
create_station_labels(s) ==
    ConcatRange([k \in 1..Len(s) |->
                   [j \in 1..s[k] |-> StationLabel(Len(s), s, k - 1, j - 1)]],
                1, Len(s))

PageEndMutant(start, most, total) == start + most

\* "min(beam_start + max_beam_cols, total_beam_cols)" and
\* "min(row_start + max_rows, total_rows)"
PageEnd(start, most, total) == Min2(start + most, total)

\* draw_page_content : the title, the column headers, then one cell per row
\* and column; a column without a title raises IndexError before any cell
draw_page_content(beam_start_col, beam_end_col, row_start, row_end, beam_titles, station_labels) ==
    LET raised == beam_end_col > Len(beam_titles) /\ beam_start_col < beam_end_col
    IN  [raised |-> raised,
         first_beam |-> (beam_start_col \div 2) + 1,
         last_beam |-> beam_end_col \div 2,
         beam_start |-> beam_start_col, beam_end |-> beam_end_col,
         row_start |-> row_start, row_end |-> row_end,
         cells |-> IF raised THEN {}
                   ELSE {<<row_idx, col>> :
                           row_idx \in row_start..(Min2(row_end, Len(station_labels)) - 1),
                           col \in beam_start_col..(beam_end_col - 1)}]

\* the inputs are those of an analysis : validate has passed, n_beams > 0
InitPages ==
    /\ mode = "pages"
    /\ pc = "ready"
    /\ \E n_beams \in 1..MaxPageBeams : inputs = [n_beams |-> n_beams]
    /\ \E s \in PageSpanPoints, bot_fig_y \in FigureBottoms :
          results = [kind |-> "results", s |-> s, bot_fig_y |-> bot_fig_y]
    /\ c = NoObject
    /\ faces = <<>>
    /\ ret = NoObject
    /\ outcome = "none"

\* generate_multi_page_pdf up to the first page : the layout limits, the
\* titles and labels, and the first range() of each loop
LayoutLimits ==
    /\ mode = "pages" /\ pc = "ready"
    /\ LET beam_titles    == create_beam_titles(inputs.n_beams)
           station_labels == create_station_labels(results.s)
           rows           == max_rows(results.bot_fig_y)
       IN  /\ c' = [kind |-> "layout", max_beam_cols |-> max_beam_cols,
                    max_rows |-> rows, beam_titles |-> beam_titles,
                    station_labels |-> station_labels,
                    total_rows |-> Len(station_labels),
                    total_beam_cols |-> Len(beam_titles),
                    beam_start |-> 0, row_start |-> 0, page_num |-> 1]
           /\ IF Len(beam_titles) = 0
                THEN pc' = "done" /\ outcome' = "returned"
              ELSE IF rows = 0
                THEN pc' = "done" /\ outcome' = "ValueError"
              ELSE IF rows < 0 \/ Len(station_labels) = 0
                THEN pc' = "done" /\ outcome' = "returned"
              ELSE pc' = "paging" /\ outcome' = outcome
    /\ UNCHANGED <<mode, inputs, results, faces, ret>>

\* one pass of the inner loop : a new page, its content, and the next
\* row_start or, after the last rows, the next beam_start
DrawPage ==
    /\ mode = "pages" /\ pc = "paging"
    /\ LET beam_end == PageEnd(c.beam_start, c.max_beam_cols, c.total_beam_cols)
           row_end  == PageEnd(c.row_start, c.max_rows, c.total_rows)
           page     == draw_page_content(c.beam_start, beam_end, c.row_start, row_end,
                                         c.beam_titles, c.station_labels)
           more_rows  == c.row_start + c.max_rows < c.total_rows
           more_beams == c.beam_start + c.max_beam_cols < c.total_beam_cols
       IN  /\ faces' = Append(faces, page)
           /\ IF page.raised
                THEN /\ pc' = "done" /\ outcome' = "IndexError"
                     /\ c' = c
              ELSE /\ c' = [c EXCEPT !.page_num = @ + 1,
                                     !.row_start = IF more_rows THEN @ + c.max_rows ELSE 0,
                                     !.beam_start = IF more_rows THEN @
                                                    ELSE @ + c.max_beam_cols]
                   /\ pc' = IF more_rows \/ more_beams THEN "paging" ELSE "done"
                   /\ outcome' = IF more_rows \/ more_beams THEN outcome ELSE "returned"
    /\ UNCHANGED <<mode, inputs, results, ret>>

NextPages == LayoutLimits \/ DrawPage

SpecPages == InitPages /\ [][NextPages]_vars

\* the loops are run to their end
SpecPagesLive == SpecPages /\ WF_vars(NextPages)

PagesWith(row_idx, col) == {p \in 1..Len(faces) : <<row_idx, col>> \in faces[p].cells}

RowRanges == {<<faces[p].row_start, faces[p].row_end>> : p \in 1..Len(faces)}

ColumnRanges == {<<faces[p].beam_start, faces[p].beam_end>> : p \in 1..Len(faces)}

\* the half-open ranges are not empty, are pairwise disjoint and cover 0..total-1
Partitions(ranges, total) ==
    /\ \A r \in ranges : 0 <= r[1] /\ r[1] < r[2] /\ r[2] <= total
    /\ \A r1 \in ranges, r2 \in ranges : r1 # r2 => (r1[2] <= r2[1] \/ r2[2] <= r1[1])
    /\ \A i \in 0..(total - 1) : \E r \in ranges : r[1] <= i /\ i < r[2]

TableDrawn ==
    /\ \A row_idx \in 0..(c.total_rows - 1), col \in 0..(c.total_beam_cols - 1) :
          Cardinality(PagesWith(row_idx, col)) = 1
    /\ Partitions(RowRanges, c.total_rows)
    /\ Partitions(ColumnRanges, c.total_beam_cols)

PagesWithinLimits ==
    \A p \in 1..Len(faces) :
       /\ faces[p].row_end - faces[p].row_start <= c.max_rows
       /\ faces[p].beam_end - faces[p].beam_start <= c.max_beam_cols
       /\ \A cell \in faces[p].cells :
             /\ cell[1] \in 0..(c.total_rows - 1)
             /\ cell[2] \in 0..(c.total_beam_cols - 1)
             /\ PagesWith(cell[1], cell[2]) = {p}
       /\ \A beam \in 1..inputs.n_beams, row_idx \in 0..(c.total_rows - 1) :
             <<row_idx, 2 * beam - 2>> \in faces[p].cells
                <=> <<row_idx, 2 * beam - 1>> \in faces[p].cells

\* C28: the pagination of the station and elevation table draws every (row,
\* flange column) cell on exactly one page : the row ranges of the pages
\* partition 0..total_rows-1 and the column ranges 0..total_beam_cols-1, a
\* page has at most max_rows rows and max_beam_cols columns, the left and
\* right flange columns of a beam are on the same page, and for every
\* positive max_rows the loop terminates.
C28_EveryCellOnOnePage ==
    /\ []((mode = "pages" /\ pc # "ready" /\ c.max_rows > 0) =>
            /\ PagesWithinLimits
            /\ (pc = "done" => (outcome = "returned" /\ TableDrawn)))
    /\ ((mode = "pages" /\ pc = "paging") ~> (pc = "done"))

\* a table of 7 beams and 5 rows, 2 rows to a page, has been drawn on
\* 3 x 3 pages, the last ones with 2 columns and 1 row
C28_Witness ==
    /\ mode = "pages" /\ pc = "done" /\ outcome = "returned"
    /\ inputs.n_beams = 7 /\ c.total_rows = 5 /\ c.max_rows = 2
    /\ Len(faces) = 9
    /\ faces[9].cells = {<<4, 12>>, <<4, 13>>}
    /\ faces[9].first_beam = 7 /\ faces[9].last_beam = 7

\* ---- the midline slice against the trimmed slices ------------------------
\* C29: for every span k and interval i the midline station, taken from the
\* untrimmed station array at index sum(s[:k]) + 1 + i, is the sample the
\* flange vertices come from, read from the trimmed arrays at index
\* sum(s[:k]) - 2k + i; both slices have s[k] - 2 entries, and no index of
\* the face loop is out of range or on a bearing point.
C29_MidlineAlignedWithFlanges ==
    (mode = "mesh" /\ pc \in {"constructed", "plotted"}) =>
       \A k \in SpanIdx :
          LET PGL == PGLRows(k)
              n   == results.s[k + 1] - 2
          IN  /\ Len(PGL) = n
              /\ \A arr \in ReadArrays :
                    /\ Len(Slice(arr.rows, start_index(k), end_index(k))) = n
                    /\ \A i \in 0..(n - 1) :
                          /\ SumTo(results.s, k) - 2 * k + i + 1 \in 1..Len(arr.rows)
                          /\ arr.rows[SumTo(results.s, k) - 2 * k + i + 1] = PGL[i + 1]
              /\ \A i \in 0..(n - 1) :
                    /\ PGL[i + 1] = SumTo(results.s, k) + 1 + i
                    /\ PGL[i + 1] \in 0..(RowsOf("sta_x_10_ft") - 1)
                    /\ PGL[i + 1] \notin BearingRows
              \* the face loop reads the entries i and i + 1 of every slice
              /\ \A i \in 0..(IntervalCount(k) - 1) : i + 2 <= n

\* the faces of a bridge of two spans of 4 and 5 samples have been drawn :
\* in the second span the midline and the trimmed arrays give rows 5, 6, 7
C29_Witness ==
    /\ Plotted
    /\ results.ns = 2
    /\ results.s[1] = 4 /\ results.s[2] = 5
    /\ PGLRows(1) = <<5, 6, 7>>
    /\ \A arr \in ReadArrays : arr.rows[3] = 5 /\ arr.rows[5] = 7

==========================================================================
